---- MODULE Spec2Model ----
(***************************************************************************)
(* A model of saico: the conversation Context (src/context.js) and the     *)
(* Itask task runner (itask.js, carried in src/test.js from line 293).     *)
(*                                                                         *)
(* The module holds three state machines over disjoint groups of           *)
(* variables:                                                              *)
(*   SpecEngine  one Context: sendMessage, the tool round, the waiting     *)
(*               queue, the deferred backlog, sequential mode;             *)
(*   SpecTask    a tree of Itasks: the state loop, cancel, wait, spawn;    *)
(*   SpecHier    a task hierarchy with Contexts: close(), aggregation.     *)
(* JavaScript is single threaded: every action is one turn of the event    *)
(* loop, a callback or call with the microtasks (promise continuations) it *)
(* leaves behind, up to the awaits that wait for a timer or for the world. *)
(***************************************************************************)
EXTENDS Integers, Sequences, FiniteSets, TLC

\* ---------------------------------------------------------------- bounds
\* top-level sendMessage calls made by the environment
MaxSends == 2
MaxSeqSends == 3
\* summarization passes of the buffer (token usage reaching lower_limit)
MaxSummaries == 2
\* tool executions whose timer fires before the handler settles
MaxTimeouts == 1
\* backend replies that carry tool calls
MaxToolReplies == 2
\* requests (openai.send) that are rejected
MaxFailures == 1
\* config.max_depth and config.max_tool_repetition of the modelled context
max_depth == 2
max_tool_repetition == 2

\* ------------------------------------------------------- small utilities
SeqMax(S) == CHOOSE x \in S : \A y \in S : y <= x
SeqMin(S) == CHOOSE x \in S : \A y \in S : x <= y

\* Map.set / Map.delete on a function with a finite domain
MapSet(m, k, v) == [x \in (DOMAIN m) \cup {k} |-> IF x = k THEN v ELSE m[x]]
MapDelete(m, k) == [x \in (DOMAIN m) \ {k} |-> m[x]]
EmptyMap == [x \in {} |-> 0]

\* ===================================================== Context (engine)
VARIABLES
    msgs,                  \* this._msgs: the envelopes, in buffer order
    waitingQueue,          \* this._waitingQueue
    deferred_tool_calls,   \* this._deferred_tool_calls
    tool_call_sequence,    \* this._tool_call_sequence
    active_tool_calls,     \* this._active_tool_calls: key -> marker
    current_depth,         \* this._current_depth
    sequential_mode,       \* this._sequential_mode (config)
    sequential_queue,      \* this._sequential_queue
    processing_sequential, \* this._processing_sequential
    immediates,            \* setImmediate(_processSequentialQueue) callbacks not yet run
    execs,                 \* call id -> the _executeToolCallWithTimeout closure and its handler
    chains,                \* chain -> stack of async frames (0: the drain loop; k: top-level call k)
    outcome,               \* top-level call -> what its promise has done so far
    nextMsg,               \* source of msgids
    nextCall,              \* source of tool-call ids (the backend's)
    nSent,                 \* top-level sendMessage calls made
    nToolReplies,          \* backend replies that carried tool calls
    nRequests,             \* openai.send requests made
    nSummaries             \* summarization passes started

evars == <<msgs, waitingQueue, deferred_tool_calls, tool_call_sequence,
           active_tool_calls, current_depth, sequential_mode, sequential_queue,
           processing_sequential, immediates, execs, chains, outcome, nextMsg,
           nextCall, nSent, nToolReplies, nRequests, nSummaries>>

\* the synthetic stand-in content _insertToolResponseAtCorrectPosition looks for
DeferredStandIn == "Processing deferred tool calls"

\* the tool-call lists a backend reply may carry (ids are given on arrival)
ToolCallLists ==
    { << [name |-> "g", args |-> "a"] >>,
      << [name |-> "f", args |-> "a"], [name |-> "f", args |-> "a"] >>,
      << [name |-> "f", args |-> "a"], [name |-> "f", args |-> "b"] >> }
\* a reply that calls two different tools
MixedToolCalls == << [name |-> "f", args |-> "a"], [name |-> "g", args |-> "a"] >>

\* result texts
DuplicateNotice(call) == "Duplicate call detected. An identical " \o call.name
TimeoutNotice(call) == "Tool call " \o call.name \o " timed out"
ErrorNotice(call) == "Tool call " \o call.name \o " failed with error"
HandlerResult(call) == "result of " \o call.name \o "(" \o call.args \o ")"
SummaryText == "[SUMMARY]: "
\* the errors openai.send rejects with, and a promise rejected with one
BackendErrors == {"API Error", "rate limit"}
Rejected(err) == "rejected with " \o err

Envelope(msgid, role, content, calls, tcid, replied, sid) ==
    [msgid |-> msgid, role |-> role, content |-> content, calls |-> calls,
     tcid |-> tcid, replied |-> replied, sid |-> sid]

Frame(kind, pc, o, depth, rec, wasProc, sid, pend) ==
    [kind |-> kind, pc |-> pc, o |-> o, depth |-> depth, rec |-> rec,
     wasProc |-> wasProc, sid |-> sid, pend |-> pend,
     items |-> <<>>, idx |-> 0, groups |-> <<>>, summarize |-> <<>>,
     not_replied |-> <<>>, content |-> ""]

\* the mutable state a run of synchronous code works on, with the running chain's
\* stack; high: util.countTokens(this.__msgs) >= this.lower_limit at the run's call of
\* summarizeMessages
Pack(c, high) ==
    [msgs |-> msgs, waitingQueue |-> waitingQueue,
     deferred_tool_calls |-> deferred_tool_calls,
     tool_call_sequence |-> tool_call_sequence,
     active_tool_calls |-> active_tool_calls, current_depth |-> current_depth,
     sequential_queue |-> sequential_queue,
     processing_sequential |-> processing_sequential, immediates |-> immediates,
     execs |-> execs, outcome |-> outcome, nextMsg |-> nextMsg,
     nRequests |-> nRequests, nSummaries |-> nSummaries, high |-> high,
     stk |-> chains[c], all |-> chains]

Commit(c, S) ==
    /\ msgs' = S.msgs
    /\ waitingQueue' = S.waitingQueue
    /\ deferred_tool_calls' = S.deferred_tool_calls
    /\ tool_call_sequence' = S.tool_call_sequence
    /\ active_tool_calls' = S.active_tool_calls
    /\ current_depth' = S.current_depth
    /\ sequential_queue' = S.sequential_queue
    /\ processing_sequential' = S.processing_sequential
    /\ immediates' = S.immediates
    /\ execs' = S.execs
    /\ outcome' = S.outcome
    /\ nextMsg' = S.nextMsg
    /\ nRequests' = S.nRequests
    /\ nSummaries' = S.nSummaries
    /\ chains' = [S.all EXCEPT ![c] = S.stk]
    /\ UNCHANGED sequential_mode

Top(S) == S.stk[Len(S.stk)]
SetTop(S, f) == [S EXCEPT !.stk[Len(S.stk)] = f]
Push(S, f) == [S EXCEPT !.stk = Append(@, f)]
Pop(S) == [S EXCEPT !.stk = SubSeq(@, 1, Len(@) - 1)]

\* ------------------------------------------------ pure helpers of Context
\* a context that never sees a pending tool call
NoPendingToolCalls(ms, dtc) == FALSE

HasPendingToolCalls(ms, dtc) ==
    \E i \in 1..Len(ms) : \E j \in 1..Len(ms[i].calls) :
        LET id == ms[i].calls[j].id IN
        /\ ~ \E k \in 1..Len(ms) : ms[k].role = "tool" /\ ms[k].tcid = id
        /\ ~ \E d \in 1..Len(dtc) : dtc[d].call.id = id

\* a filter that lets every call through
NeverDropToolCall(seq, toolName) == FALSE

TrackToolCall(seq, toolName) ==
    LET s == Append(seq, toolName) IN
    IF Len(s) > max_tool_repetition * 2
    THEN SubSeq(s, Len(s) - max_tool_repetition + 1, Len(s))
    ELSE s

ShouldDropToolCall(seq, toolName) ==
    IF Len(seq) < max_tool_repetition THEN FALSE
    ELSE LET other == {i \in 1..Len(seq) : seq[i] # toolName}
             consecutiveCount == Len(seq) - (IF other = {} THEN 0 ELSE SeqMax(other))
         IN consecutiveCount >= max_tool_repetition

ResetToolSequenceIfDifferent(seq, newToolNames) ==
    IF Len(newToolNames) = 0 THEN <<>>
    ELSE IF Len(seq) = 0 THEN <<>>
    ELSE IF \A i \in 1..Len(newToolNames) : newToolNames[i] # seq[Len(seq)]
         THEN <<>> ELSE seq

FilterExcessiveToolCalls(seq, toolCalls) ==
    SelectSeq(toolCalls, LAMBDA call : ~ ShouldDropToolCall(seq, call.name))

\* a key that forgets the argument string
GetToolCallKeyByName(call) == call.name

GetToolCallKey(call) == call.name \o ":" \o call.args

IsDuplicateToolCall(active, call) == GetToolCallKey(call) \in DOMAIN active

TrackActiveToolCall(active, call) ==
    MapSet(active, GetToolCallKey(call),
           [call_id |-> call.id, function_name |-> call.name, arguments |-> call.args])

\* a completion that leaves the marker in place
KeepActiveToolCall(active, call) == active

CompleteActiveToolCall(active, call) ==
    IF GetToolCallKey(call) \in DOMAIN active
    THEN MapDelete(active, GetToolCallKey(call)) ELSE active

\* a response that stays where _createMsgObj appended it
LeaveToolResponseAtEnd(ms, tool_call_id) == ms

\* the response is the last element (just appended by _createMsgObj)
InsertToolResponseAtCorrectPosition(ms, tool_call_id) ==
    LET matching == {i \in 1..Len(ms) :
                        \E j \in 1..Len(ms[i].calls) : ms[i].calls[j].id = tool_call_id}
        original == {i \in matching : ms[i].content # DeferredStandIn}
        finalInsertIndex == IF original # {} THEN SeqMax(original)
                            ELSE IF matching # {} THEN SeqMax(matching) ELSE -1
        n == Len(ms)
    IN IF finalInsertIndex # -1 /\ finalInsertIndex < n
       THEN SubSeq(ms, 1, finalInsertIndex) \o <<ms[n]>>
            \o SubSeq(ms, finalInsertIndex + 1, n - 1)
       ELSE ms

\* ------------------------------------------- synchronous segments of Context
CreateMsgObj(S, role, content, tcid, sid) ==
    LET o == Envelope(S.nextMsg, role, content, <<>>, tcid, 0, sid)
    IN [S EXCEPT !.msgs = Append(@, o), !.nextMsg = @ + 1]

\* _createMsgObj, replied = 1, _insertToolResponseAtCorrectPosition: a result that
\* is not the last of its round
InsertDirectly(S, call, content) ==
    LET S1 == CreateMsgObj(S, "tool", content, call.id, 0)
        n == Len(S1.msgs)
        S2 == [S1 EXCEPT !.msgs[n].replied = 1]
    IN [S2 EXCEPT !.msgs = InsertToolResponseAtCorrectPosition(@, call.id)]

RECURSIVE AdmitAll(_, _)
AdmitAll(S, q) ==
    IF q = <<>> THEN S
    ELSE AdmitAll(CreateMsgObj(S, q[1].role, q[1].content, 0, q[1].sid), Tail(q))

ProcessWaitingQueue(S) ==
    [AdmitAll(S, S.waitingQueue) EXCEPT !.waitingQueue = <<>>]

\* a finally block that leaves the depth counter alone
SendFinallyKeepsDepth(S, rec, wasProcessing) ==
    IF rec THEN S
    ELSE [S EXCEPT
            !.processing_sequential = IF sequential_mode THEN wasProcessing ELSE @,
            !.immediates = IF sequential_mode /\ ~ wasProcessing THEN @ + 1 ELSE @]

\* the finally block of _sendMessageInternal
SendFinally(S, rec, wasProcessing) ==
    IF rec THEN S
    ELSE [S EXCEPT
            !.current_depth = @ - 1,
            !.processing_sequential = IF sequential_mode THEN wasProcessing ELSE @,
            !.immediates = IF sequential_mode /\ ~ wasProcessing THEN @ + 1 ELSE @]

\* _processSendMessage up to its first await of a request: summarizeMessages returns at
\* once and the queue goes to openai.send, or _summarizeContext asks for a summary (its
\* keep list selects on m.summary, a field no envelope has, and is empty; the summary
\* flag is opts.summary)
ProcessSendMessageStart(S) ==
    LET S1 == IF Len(S.waitingQueue) > 0
                 /\ ~ HasPendingToolCalls(S.msgs, S.deferred_tool_calls)
              THEN ProcessWaitingQueue(S) ELSE S
        summarize == SelectSeq(S1.msgs, LAMBDA m : m.replied # 0)
        S2 == [S1 EXCEPT !.nRequests = @ + 1]
    IN IF S.high /\ S.nSummaries < MaxSummaries /\ summarize # <<>>
       THEN SetTop([S2 EXCEPT !.nSummaries = @ + 1],
                   [Top(S2) EXCEPT !.pc = "summarizing",
                                   !.summarize = summarize,
                                   !.not_replied = SelectSeq(S1.msgs, LAMBDA m : m.replied = 0)])
       ELSE SetTop(S2, [Top(S2) EXCEPT !.pc = "backend"])

\* _sendMessageInternal up to the first await of _processSendMessage: either the
\* message is put in the waiting queue (no frame is pushed) or a frame is pushed
SendMessageInternal(S, role, content, tcid, sid, rec, depthArg) ==
    LET d1 == IF rec THEN S.current_depth ELSE S.current_depth + 1
        currentDepth == IF rec THEN depthArg ELSE d1
        wasProcessing == S.processing_sequential
        S1 == [S EXCEPT !.current_depth = d1,
                        !.processing_sequential =
                            IF sequential_mode /\ ~ rec THEN TRUE ELSE @]
        pend == HasPendingToolCalls(S1.msgs, S1.deferred_tool_calls)
    IN IF pend /\ role # "tool"
       THEN SendFinally(
                [S1 EXCEPT !.waitingQueue =
                               Append(@, [role |-> role, content |-> content, sid |-> sid]),
                           !.outcome[sid] = "queued"],
                rec, wasProcessing)
       ELSE LET S2 == CreateMsgObj(S1, role, content, tcid, sid)
                S3 == IF role = "tool" /\ tcid # 0
                      THEN [S2 EXCEPT !.msgs = InsertToolResponseAtCorrectPosition(@, tcid)]
                      ELSE S2
                S4 == Push(S3, Frame("send", "entry", S1.nextMsg, currentDepth, rec,
                                     wasProcessing, sid, pend))
            IN ProcessSendMessageStart(
                   IF rec THEN S4 ELSE [S4 EXCEPT !.outcome[sid] = "inflight"])

RECURSIVE PostRound(_), DeferredNextGroup(_), DrainLoop(_)

\* _processSendMessage returns and _sendMessageInternal's finally runs: the frame is
\* popped and the frame that awaited it goes on
\* a round that returns its own text
OwnText(content, content2) == content

\* reply.content ||= ''; reply.content += reply2?.content ? '\n' + reply2.content : ''
AppendContent(content, content2) ==
    content \o (IF content2 # "" THEN "\n" \o content2 ELSE "")

\* the continuation has returned reply2: reply, which is also the message the buffer
\* holds, gets its text
ContinuationReturns(S, content2) ==
    LET f == Top(S)
        content == AppendContent(f.content, content2)
    IN SetTop([S EXCEPT !.msgs =
                  [i \in 1..Len(@) |->
                      IF @[i].role = "assistant" /\ @[i].msgid = f.o
                      THEN [@[i] EXCEPT !.content = content] ELSE @[i]]],
              [f EXCEPT !.content = content])

FinishSend(S) ==
    LET f == Top(S)
        S1 == Pop(SendFinally(S, f.rec, f.wasProc))
        S2 == IF f.rec THEN S1 ELSE [S1 EXCEPT !.outcome[f.sid] = "replied"]
    IN IF S2.stk = <<>> THEN S2
       ELSE CASE Top(S2).kind = "send" -> PostRound(ContinuationReturns(S2, f.content))
              [] Top(S2).kind = "deferred" -> DeferredNextGroup(S2)
              [] Top(S2).kind = "drain" -> DrainLoop(S2)

\* the closure of one _executeToolCallWithTimeout call; the handler is invoked
\* synchronously when it is created
NewExec(call) == [call |-> call, h |-> "running", completed |-> FALSE, timer |-> "armed",
                  resolved |-> 0, result |-> "", ninv |-> 1]

ExecuteToolCallWithTimeout(S, call) ==
    [S EXCEPT !.execs =
        IF call.id \in DOMAIN @
        THEN [@ EXCEPT ![call.id] = [NewExec(call) EXCEPT !.ninv = S.execs[call.id].ninv + 1]]
        ELSE MapSet(@, call.id, NewExec(call))]

\* a settle whose catch block resolves with nothing
ExecSettleNoNotice(e, call, how) ==
    IF ~ e.completed
    THEN [e EXCEPT !.h = "settled", !.completed = TRUE, !.timer = "cleared",
                   !.resolved = @ + 1,
                   !.result = IF how = "ok" THEN HandlerResult(call) ELSE ""]
    ELSE [e EXCEPT !.h = "settled"]

\* a settle that does not look at the completed flag
ExecSettleUnguarded(e, call, how) ==
    [e EXCEPT !.h = "settled", !.completed = TRUE, !.timer = "cleared",
              !.resolved = @ + 1,
              !.result = IF how = "ok" THEN HandlerResult(call) ELSE ErrorNotice(call)]

\* the handler's promise settles ("ok": a result, "err": a throw or rejection)
ExecSettle(e, call, how) ==
    IF ~ e.completed
    THEN [e EXCEPT !.h = "settled", !.completed = TRUE, !.timer = "cleared",
                   !.resolved = @ + 1,
                   !.result = IF how = "ok" THEN HandlerResult(call) ELSE ErrorNotice(call)]
    ELSE [e EXCEPT !.h = "settled"]

\* the timer's callback runs
ExecTimeout(e, call) ==
    IF ~ e.completed
    THEN [e EXCEPT !.completed = TRUE, !.timer = "fired", !.resolved = @ + 1,
                   !.result = TimeoutNotice(call)]
    ELSE [e EXCEPT !.timer = "fired"]

\* history: is a call with this name and this argument string marked active now?
SameCallActive(S, call) ==
    \E k \in DOMAIN S.active_tool_calls :
        /\ S.active_tool_calls[k].function_name = call.name
        /\ S.active_tool_calls[k].arguments = call.args

Item(call, dup, res, wasActive) ==
    [call |-> call, dup |-> dup, res |-> res, wasActive |-> wasActive]

\* first loop of a direct round: duplicates get their notice, the others are marked active
RECURSIVE Classify(_, _, _)
Classify(S, calls, items) ==
    IF calls = <<>> THEN SetTop(S, [Top(S) EXCEPT !.items = items])
    ELSE LET call == Head(calls)
             S1 == [S EXCEPT !.tool_call_sequence = TrackToolCall(@, call.name)]
             was == SameCallActive(S1, call)
         IN IF IsDuplicateToolCall(S1.active_tool_calls, call)
            THEN Classify(S1, Tail(calls),
                          Append(items, Item(call, TRUE, DuplicateNotice(call), was)))
            ELSE Classify([S1 EXCEPT !.active_tool_calls = TrackActiveToolCall(@, call)],
                          Tail(calls), Append(items, Item(call, FALSE, "", was)))

RECURSIVE InsertAll(_, _, _)
InsertAll(S, items, i) ==
    IF i >= Len(items) THEN S
    ELSE InsertAll(InsertDirectly(S, items[i].call, items[i].res), items, i + 1)

RECURSIVE GroupByMessage(_)
GroupByMessage(d) ==
    IF d = <<>> THEN <<>>
    ELSE <<SelectSeq(d, LAMBDA x : x.orig = d[1].orig)>>
         \o GroupByMessage(SelectSeq(d, LAMBDA x : x.orig # d[1].orig))

\* _processDeferredToolCalls: the loops over the groups and over a group's calls, each
\* run up to the next await
RECURSIVE DeferredCall(_, _), DeferredFeed(_, _)
DeferredNextGroup(S) ==
    LET f == Top(S) IN
    IF f.groups = <<>>
    THEN FinishSend(Pop(S))
    ELSE LET g == Head(f.groups)
             toolCalls == [i \in 1..Len(g) |-> g[i].call]
             toolNames == [i \in 1..Len(g) |-> g[i].call.name]
             seq1 == ResetToolSequenceIfDifferent(S.tool_call_sequence, toolNames)
             filtered == FilterExcessiveToolCalls(seq1, toolCalls)
             S1 == [S EXCEPT !.tool_call_sequence = seq1]
         IN DeferredCall(
                SetTop(S1, [f EXCEPT !.groups = Tail(f.groups), !.idx = 0,
                                     !.items = [i \in 1..Len(filtered) |->
                                                   Item(filtered[i], FALSE, "", FALSE)]]),
                1)

DeferredCall(S, i) ==
    LET f == Top(S) IN
    IF i > Len(f.items) THEN DeferredNextGroup(S)
    ELSE LET call == f.items[i].call
             S1 == [S EXCEPT !.tool_call_sequence = TrackToolCall(@, call.name)]
             was == SameCallActive(S1, call)
         IN IF IsDuplicateToolCall(S1.active_tool_calls, call)
            THEN DeferredFeed(
                     SetTop(S1, [f EXCEPT !.items[i] =
                                    Item(call, TRUE, DuplicateNotice(call), was)]),
                     i)
            ELSE ExecuteToolCallWithTimeout(
                     SetTop([S1 EXCEPT !.active_tool_calls = TrackActiveToolCall(@, call)],
                            [f EXCEPT !.items[i] = Item(call, FALSE, "", was),
                                      !.pc = "exec", !.idx = i]),
                     call)

DeferredFeed(S, i) ==
    LET f == Top(S)
        item == f.items[i]
    IN IF i = Len(f.items)
       THEN SendMessageInternal(SetTop(S, [f EXCEPT !.pc = "cont"]),
                                "tool", item.res, item.call.id, 0, TRUE, 1)
       ELSE DeferredCall(InsertDirectly(S, item.call, item.res), i + 1)

ProcessDeferredToolCalls(S) ==
    LET f == Top(S)
        S1 == SetTop([S EXCEPT !.deferred_tool_calls = <<>>], [f EXCEPT !.pc = "deferredwait"])
        d == [Frame("deferred", "entry", 0, 1, TRUE, FALSE, 0, FALSE)
                EXCEPT !.groups = GroupByMessage(S.deferred_tool_calls)]
    IN DeferredNextGroup(Push(S1, d))

\* _processSendMessage after the tool round: the waiting queue, the deferred backlog
PostRound(S) ==
    LET f == Top(S)
        S1 == IF ~ HasPendingToolCalls(S.msgs, S.deferred_tool_calls)
                 /\ Len(S.waitingQueue) > 0
              THEN ProcessWaitingQueue(S) ELSE S
    IN IF /\ ~ f.rec
          /\ S1.current_depth = 1
          /\ ~ HasPendingToolCalls(S1.msgs, S1.deferred_tool_calls)
          /\ Len(S1.waitingQueue) = 0
          /\ Len(S1.deferred_tool_calls) > 0
       THEN ProcessDeferredToolCalls(S1)
       ELSE FinishSend(S1)

\* third loop of a direct round: all results but the last are inserted, the last is
\* resubmitted at depth + 1
FeedResults(S) ==
    LET f == Top(S)
        n == Len(f.items)
    IN IF n = 0 THEN PostRound(S)
       ELSE SendMessageInternal(
                SetTop(InsertAll(S, f.items, 1), [f EXCEPT !.pc = "cont"]),
                "tool", f.items[n].res, f.items[n].call.id, 0, TRUE, f.depth + 1)

\* second loop of a direct round: the next call that is no duplicate is executed
NextExec(S, from) ==
    LET f == Top(S)
        todo == {j \in from..Len(f.items) : ~ f.items[j].dup}
    IN IF todo # {}
       THEN ExecuteToolCallWithTimeout(
                SetTop(S, [f EXCEPT !.pc = "exec", !.idx = SeqMin(todo)]),
                f.items[SeqMin(todo)].call)
       ELSE FeedResults(S)

\* o.replied = 1: o is one object, whether the buffer holds it or the not_replied list
\* of a summarization pass that has not finished
MarkReplied(ms, o) ==
    [i \in 1..Len(ms) |->
        IF ms[i].msgid = o /\ ms[i].role # "assistant"
        THEN [ms[i] EXCEPT !.replied = 1] ELSE ms[i]]

\* a round that executes its calls whatever the depth
NeverDefer(depth, filteredToolCalls) == FALSE

\* depth >= this.max_depth && filteredToolCalls.length > 0
ShouldDefer(depth, filteredToolCalls) ==
    depth >= max_depth /\ Len(filteredToolCalls) > 0

\* _processSendMessage from the backend's reply to the next await
OnReply(S, calls, content) ==
    LET f == Top(S)
        reply == Envelope(f.o, "assistant", content, calls, 0, 3, 0)
        Held(stk) == [i \in 1..Len(stk) |->
                         [stk[i] EXCEPT !.not_replied = MarkReplied(@, f.o)]]
        S0 == [S EXCEPT !.msgs = Append(MarkReplied(@, f.o), reply),
                        !.stk = Held(@),
                        !.all = [x \in DOMAIN @ |-> Held(@[x])]]
        S1 == SetTop(S0, [Top(S0) EXCEPT !.content = content])
    IN IF calls = <<>> THEN PostRound(S1)
       ELSE LET toolNames == [i \in 1..Len(calls) |-> calls[i].name]
                seq1 == ResetToolSequenceIfDifferent(S1.tool_call_sequence, toolNames)
                filtered == FilterExcessiveToolCalls(seq1, calls)
                defer == ShouldDefer(f.depth, filtered)
                S2 == [S1 EXCEPT
                         !.tool_call_sequence = seq1,
                         !.deferred_tool_calls =
                             IF defer
                             THEN @ \o [i \in 1..Len(filtered) |->
                                          [call |-> filtered[i], orig |-> f.o, depth |-> f.depth]]
                             ELSE @]
            IN NextExec(Classify(S2, IF defer THEN <<>> ELSE filtered, <<>>), 1)

\* a tool execution has resolved: the active marker is cleared and the round goes on
AfterExec(S, result) ==
    LET f == Top(S)
        call == f.items[f.idx].call
        S1 == SetTop([S EXCEPT !.active_tool_calls = CompleteActiveToolCall(@, call)],
                     [f EXCEPT !.items[f.idx].res = result])
    IN IF f.kind = "send" THEN NextExec(S1, f.idx + 1) ELSE DeferredFeed(S1, f.idx)

\* the while loop of _processSequentialQueue, up to the next await
DrainLoop(S) ==
    IF S.sequential_queue = <<>>
    THEN Pop([S EXCEPT !.processing_sequential = FALSE])
    ELSE LET q == Head(S.sequential_queue)
             S1 == SetTop([S EXCEPT !.sequential_queue = Tail(@)],
                          [Top(S) EXCEPT !.pc = "cont", !.sid = q.sid])
             R == SendMessageInternal(S1, q.role, q.content, 0, q.sid, FALSE, 0)
         IN IF Len(R.stk) = Len(S1.stk) THEN DrainLoop(R) ELSE R

\* a catch block that takes the outgoing message back out of the buffer
RollBackAndRethrow(S, f) == [S EXCEPT !.msgs = SelectSeq(@, LAMBDA m : m.msgid # f.o)]

\* the catch block of _processSendMessage: a diagnostic dump, then throw err
CatchAndRethrow(S, f) == S

\* an awaited request rejects with err: the error leaves _processSendMessage through its
\* catch block and _sendMessageInternal through its finally block, and so on through
\* every frame that awaits it, up to the caller's promise or to the catch of the drain
\* loop, which rejects the queued call and goes on with the queue
RECURSIVE Throw(_, _)
Throw(S, err) ==
    LET f == Top(S) IN
    IF f.kind = "deferred" THEN Throw(Pop(S), err)
    ELSE LET S1 == Pop(SendFinally(CatchAndRethrow(S, f), f.rec, f.wasProc))
             S2 == IF f.rec THEN S1 ELSE [S1 EXCEPT !.outcome[f.sid] = Rejected(err)]
         IN IF S2.stk = <<>> THEN S2
            ELSE IF Top(S2).kind = "drain" THEN DrainLoop(S2)
            ELSE Throw(S2, err)

\* ============================================================ Itask (tasks)
VARIABLES
    tasks,     \* task id -> the Itask object, its pending callbacks and its _run activation
    nCancels   \* _ecancel calls made by the application

tvars == <<tasks, nCancels>>

\* tasks that can exist, and _ecancel calls the application makes
MaxTasks == 3
MaxCancels == 2
\* then() and finally() calls the application makes
MaxAwaiters == 1
TaskIds == 1..MaxTasks

Undefined == "undefined"
\* new Error('cancelled')
CancelledError == "cancelled"
\* what a step of index i throws, returns, or what its promise settles with
Thrown(i) == "thrown by " \o ToString(i)
Rejection(i) == "rejection of " \o ToString(i)
Returned(i) == "value of " \o ToString(i)
Resolution(i) == "resolution of " \o ToString(i)
ContinueValue == "continue value"
\* the arguments the application passes to return() and throw(): a value, an Error
\* object and a string
ReturnValue == "return value"
ForcedError == "forced error"
ForcedText == "forced-error"
ThrowArgs == {ForcedError, ForcedText}
\* new Error(String(err))
NewError(err) == "Error: " \o err
\* (err instanceof Error) ? err : new Error(String(err))
AsError(err) == IF err = ForcedError THEN err ELSE NewError(err)

\* a state function: the '_'-separated tokens left of '$' in its name, and what it does
\* when called ("value", "throw", "promise", "wait", "child", "spawn")
Fn(left, beh) == [left |-> left, beh |-> beh]

RECURSIVE ScanTokens(_, _, _)
ScanTokens(left, j, type) ==
    IF j > Len(left) THEN type
    ELSE IF left[j] = "try"
         THEN ScanTokens(left,
                         IF j + 1 <= Len(left) /\ left[j + 1] = "catch" THEN j + 2 ELSE j + 1,
                         [type EXCEPT !.try_catch = TRUE])
         ELSE IF left[j] = "catch"
         THEN ScanTokens(left, j + 1, [type EXCEPT !.catch = TRUE])
         ELSE IF left[j] \in {"finally", "ensure"}
         THEN ScanTokens(left, j + 1, [type EXCEPT !.finally = TRUE])
         ELSE IF left[j] = "cancel"
         THEN ScanTokens(left, j + 1, [type EXCEPT !.cancel = TRUE])
         ELSE ScanTokens(left, j + 1, type)

parse_state_type(fn) ==
    LET t == ScanTokens(fn.left, 1,
                        [try_catch |-> FALSE, catch |-> FALSE, finally |-> FALSE,
                         cancel |-> FALSE])
    IN [try_catch |-> t.try_catch, catch |-> t.catch, finally |-> t.finally,
        cancel |-> t.cancel, aux |-> t.catch \/ t.finally \/ t.cancel]

\* indices are those of the source: 0-based, -1 for "none"
FindIndex(states, P(_)) ==
    LET hits == {i \in 0..(Len(states) - 1) : P(states[i + 1])}
    IN IF hits = {} THEN -1 ELSE SeqMin(hits)

\* a cursor that moves to the next index whatever stands there
next_index(states, cur) == cur + 1

next_non_aux(states, cur) ==
    LET hits == {i \in (cur + 1)..(Len(states) - 1) : ~ states[i + 1].aux}
    IN IF hits # {} THEN SeqMin(hits)
       ELSE IF cur + 1 > Len(states) THEN cur + 1 ELSE Len(states)

next_error_handler(states, cur) ==
    LET hits == {i \in (cur + 1)..(Len(states) - 1) : states[i + 1].catch}
    IN IF hits = {} THEN -1 ELSE SeqMin(hits)

\* the Itask constructor; async: opt.async (no nextTick run is scheduled)
Itask(funcs, async) ==
    LET states == [i \in 1..Len(funcs) |-> parse_state_type(funcs[i])] IN
    [created |-> TRUE, funcs |-> funcs, states |-> states, cur_state |-> 0,
     running |-> FALSE, completed |-> FALSE, error |-> Undefined, retval |-> Undefined,
     parent |-> 0, child |-> {},
     cancel_state_idx |-> FindIndex(states, LAMBDA st : st.cancel),
     continue_reject |-> FALSE,
     tick |-> ~ async,            \* a process.nextTick(_run) callback is pending
     finalize |-> "none",         \* the setImmediate callback of _ecancel
     finalize_children |-> {},
     pc |-> "none",               \* where the _run activation is suspended
     awaited |-> 0,               \* the child task it awaits
     children |-> {},             \* the children its completion waits for
     cbs |-> <<>>,                \* _oncomplete and _finally_cbs entries of the application
     final |-> <<>>,              \* history: the (error, retval) _complete_internal handed out
     visits |-> <<>>,             \* history: the steps called, with their arguments
     cancelled |-> FALSE,         \* history: _ecancel reached it before it completed,
                                  \*          and continue() was not called on it since
     cancel_step_due |-> FALSE]   \* history: ... while its cancel-step was unvisited

NotCreated(funcs) == [Itask(funcs, TRUE) EXCEPT !.created = FALSE]

RECURSIVE SetToSeq(_)
SetToSeq(S) == IF S = {} THEN <<>> ELSE <<SeqMin(S)>> \o SetToSeq(S \ {SeqMin(S)})

\* the state a run of synchronous code and the microtasks it leaves work on
PackTasks == [tk |-> tasks, mq |-> <<>>, overflow |-> FALSE]

Settle(t, ok, val) == [t |-> t, kind |-> "settle", ok |-> ok, val |-> val]

\* fn.call(context, this.error || this.retval)
Visit(S, t, idx) ==
    LET k == S.tk[t] IN
    [S EXCEPT !.tk[t].visits =
        Append(@, [idx |-> idx,
                   arg |-> IF k.error # Undefined THEN k.error ELSE k.retval,
                   out |-> "called", val |-> Undefined])]

Outcome(S, t, out, val) ==
    LET n == Len(S.tk[t].visits) IN
    IF n = 0 THEN S
    ELSE [S EXCEPT !.tk[t].visits[n].out = out, !.tk[t].visits[n].val = val]

\* a callback of the application: the promise of then() ("then") or a finally() callback
Awaiter(kind) ==
    [kind |-> kind, late |-> FALSE, fired |-> 0, how |-> "pending",
     err |-> Undefined, res |-> Undefined]

\* cb(this.error, this.retval); the callback of then() rejects if (err), else resolves
Fire(a, error, retval) ==
    IF a.kind = "then"
    THEN IF error # Undefined
         THEN [a EXCEPT !.fired = @ + 1, !.how = "rejected", !.err = error]
         ELSE [a EXCEPT !.fired = @ + 1, !.how = "resolved", !.res = retval]
    ELSE [a EXCEPT !.fired = @ + 1, !.how = "called", !.err = error, !.res = retval]

\* _complete_internal: the _oncomplete callbacks settle the awaits on this task and
\* count it off where a completion waits for children
complete_internal(S, t) ==
    LET k == S.tk[t] IN
    IF k.completed THEN S
    ELSE LET ok == k.error = Undefined
             val == IF ok THEN k.retval ELSE k.error
             awaiters == {q \in TaskIds : /\ S.tk[q].pc \in {"await_child", "finally_child"}
                                          /\ S.tk[q].awaited = t}
             lastOf == {q \in TaskIds : S.tk[q].pc = "children" /\ S.tk[q].children = {t}}
             lastOfFinalize == {q \in TaskIds : /\ S.tk[q].finalize = "children"
                                                /\ S.tk[q].finalize_children = {t}}
             tk1 == [q \in TaskIds |->
                        LET x == IF q = t
                                 THEN [S.tk[q] EXCEPT
                                         !.completed = TRUE, !.running = FALSE,
                                         !.cbs = [i \in 1..Len(@) |->
                                                     Fire(@[i], k.error, k.retval)],
                                         !.final = <<k.error, k.retval>>]
                                 ELSE S.tk[q]
                        IN [x EXCEPT !.children = @ \ {t},
                                     !.finalize_children = @ \ {t},
                                     !.child = IF q = k.parent THEN @ \ {t} ELSE @]]
             awaits == SetToSeq(awaiters)
             lasts == SetToSeq(lastOf)
             finals == SetToSeq(lastOfFinalize)
         IN [S EXCEPT
               !.tk = tk1,
               !.mq = @ \o [i \in 1..Len(awaits) |-> Settle(awaits[i], ok, val)]
                        \o [i \in 1..Len(lasts) |-> [t |-> lasts[i], kind |-> "children"]]
                        \o [i \in 1..Len(finals) |-> [t |-> finals[i], kind |-> "finalize"]]]

\* the end of _run: wait for the children, then _complete_internal
WaitForChildren(S, t) ==
    IF S.tk[t].child # {}
    THEN [S EXCEPT !.tk[t].pc = "children", !.tk[t].children = S.tk[t].child]
    ELSE complete_internal([S EXCEPT !.tk[t].pc = "none"], t)

NextFree(S) ==
    LET free == {c \in TaskIds : ~ S.tk[c].created}
    IN IF free = {} THEN 0 ELSE SeqMin(free)

\* new Itask(...) in a state function, and spawn of it
spawn(S, t, c) ==
    [S EXCEPT !.tk[c] = [Itask(S.tk[c].funcs, FALSE) EXCEPT !.parent = t],
              !.tk[t].child = @ \cup {c}]

\* after the loop: the finally state, up to its await if it has one
AfterLoop(S, t) ==
    LET k == S.tk[t]
        finallyIdx == FindIndex(k.states, LAMBDA st : st.finally)
    IN IF finallyIdx # -1 /\ ~ k.completed
       THEN LET fn == k.funcs[finallyIdx + 1]
                S1 == Visit(S, t, finallyIdx)
                c == NextFree(S1)
            IN CASE fn.beh = "value" -> WaitForChildren(S1, t)
                 [] fn.beh = "throw" ->
                        WaitForChildren([S1 EXCEPT !.tk[t].error = Thrown(finallyIdx)], t)
                 [] fn.beh = "promise" -> [S1 EXCEPT !.tk[t].pc = "finally_promise"]
                 [] fn.beh = "wait" -> [S1 EXCEPT !.tk[t].pc = "finally_wait",
                                                  !.tk[t].continue_reject = TRUE]
                 [] fn.beh = "child" ->
                        IF c = 0 THEN [S1 EXCEPT !.overflow = TRUE]
                        ELSE [spawn(S1, t, c) EXCEPT !.tk[t].pc = "finally_child",
                                                     !.tk[t].awaited = c]
                 [] fn.beh = "spawn" ->
                        IF c = 0 THEN [S1 EXCEPT !.overflow = TRUE]
                        ELSE WaitForChildren(spawn(S1, t, c), t)
       ELSE WaitForChildren(S, t)

RECURSIVE RunLoop(_, _)

\* "Handle state advancement"
Advance(S, t) ==
    LET k == S.tk[t] IN
    IF k.error = Undefined
    THEN RunLoop([S EXCEPT !.tk[t].cur_state = next_non_aux(k.states, k.cur_state)], t)
    ELSE IF /\ k.error = CancelledError
            /\ k.cancel_state_idx # -1
            /\ k.cur_state < k.cancel_state_idx
    THEN RunLoop([S EXCEPT !.tk[t].cur_state = k.cancel_state_idx], t)
    ELSE LET nextErrIdx == next_error_handler(k.states, k.cur_state) IN
         IF nextErrIdx = -1 THEN AfterLoop(S, t)
         ELSE RunLoop([S EXCEPT !.tk[t].cur_state = nextErrIdx], t)

\* the while loop of _run, up to its next await
RunLoop(S, t) ==
    LET k == S.tk[t] IN
    IF S.overflow THEN S
    ELSE IF k.completed \/ k.cur_state >= Len(k.funcs) THEN AfterLoop(S, t)
    ELSE LET i == k.cur_state
             fn == k.funcs[i + 1]
             stateInfo == k.states[i + 1]
             S1 == Visit(S, t, i)
             c == NextFree(S1)
         IN CASE fn.beh = "promise" -> [S1 EXCEPT !.tk[t].pc = "await_promise"]
              [] fn.beh = "wait" -> [S1 EXCEPT !.tk[t].pc = "await_wait",
                                               !.tk[t].continue_reject = TRUE]
              [] fn.beh = "child" ->
                     IF c = 0 THEN [S1 EXCEPT !.overflow = TRUE]
                     ELSE [spawn(S1, t, c) EXCEPT !.tk[t].pc = "await_child",
                                                  !.tk[t].awaited = c]
              [] OTHER ->
                     LET S2 == IF fn.beh # "spawn" THEN S1
                               ELSE IF c = 0 THEN [S1 EXCEPT !.overflow = TRUE]
                               ELSE spawn(S1, t, c)
                         thrown == fn.beh = "throw"
                         e1 == IF thrown THEN Thrown(i) ELSE k.error
                         e2 == IF stateInfo.catch \/ stateInfo.cancel THEN Undefined ELSE e1
                         rv == IF thrown THEN Undefined ELSE Returned(i)
                         S3 == [S2 EXCEPT !.tk[t].error = e2,
                                          !.tk[t].retval = IF e2 = Undefined THEN rv ELSE @]
                     IN Advance(Outcome(S3, t, IF thrown THEN "failed" ELSE "returned",
                                        IF thrown THEN Thrown(i) ELSE rv), t)

\* an await of _run is over: the value or error is taken and the activation goes on
Settled(S, t, ok, val) ==
    LET k == S.tk[t]
        S1 == Outcome([S EXCEPT !.tk[t].pc = "none", !.tk[t].awaited = 0], t,
                      IF ok THEN "returned" ELSE "failed", val)
    IN IF k.pc \in {"await_promise", "await_wait", "await_child"}
       THEN Advance([S1 EXCEPT !.tk[t].retval = IF ok THEN val ELSE @,
                               !.tk[t].error = IF ok THEN Undefined ELSE val], t)
       ELSE IF k.pc \in {"finally_promise", "finally_wait", "finally_child"}
       THEN WaitForChildren([S1 EXCEPT !.tk[t].error = IF ok THEN @ ELSE val], t)
       ELSE S

\* the microtasks run until none is left
RECURSIVE Drain(_)
Drain(S) ==
    IF S.mq = <<>> \/ S.overflow THEN S
    ELSE LET m == Head(S.mq)
             S1 == [S EXCEPT !.mq = Tail(@)]
         IN Drain(CASE m.kind = "settle" -> Settled(S1, m.t, m.ok, m.val)
                    [] m.kind = "children" ->
                           complete_internal([S1 EXCEPT !.tk[m.t].pc = "none"], m.t)
                    [] m.kind = "finalize" ->
                           complete_internal([S1 EXCEPT !.tk[m.t].finalize = "none"], m.t))

\* _ecancel, with _cancel_wait and _ecancel_child
RECURSIVE ecancel(_, _), ecancel_child(_, _)
ecancel(S, t) ==
    LET k == S.tk[t]
        due == /\ k.cancel_state_idx # -1
               /\ \A v \in 1..Len(k.visits) : k.visits[v].idx # k.cancel_state_idx
        S1 == IF k.completed THEN S
              ELSE [S EXCEPT
                      !.tk[t].error = CancelledError,
                      !.tk[t].cur_state = IF k.cancel_state_idx # -1
                                          THEN k.cancel_state_idx ELSE @,
                      !.tk[t].continue_reject = FALSE,
                      !.tk[t].cancelled = TRUE,
                      !.tk[t].cancel_step_due = @ \/ due,
                      !.mq = IF k.continue_reject
                             THEN Append(@, Settle(t, FALSE, CancelledError)) ELSE @]
        S2 == ecancel_child(S1, SetToSeq(k.child))
    IN IF ~ S2.tk[t].running /\ S2.tk[t].finalize = "none"
       THEN [S2 EXCEPT !.tk[t].finalize = "scheduled"] ELSE S2

ecancel_child(S, children) ==
    IF children = <<>> THEN S
    ELSE ecancel_child(ecancel(S, Head(children)), Tail(children))

\* ======================================================== task hierarchy
VARIABLES
    hparent,    \* node -> task.parent of the node's task (0: none)
    contexts,   \* node -> the Context attached to the node's task, if any
    closes,     \* node -> the close() pass in flight on its context, if any
    nextHMsg    \* source of message ids

hvars == <<hparent, contexts, closes, nextHMsg>>

notEngine == <<tvars, hvars>>
notTasks == <<evars, hvars>>
notHier == <<evars, tvars>>

\* ------------------------------------------------------- actions of Itask
Main(beh) == Fn(<<>>, beh)
Catch(beh) == Fn(<<"catch">>, beh)
Finally(beh) == Fn(<<"finally">>, beh)
Cancel(beh) == Fn(<<"cancel">>, beh)

\* the state lists of the root task, of the task created second and of the one created third
RootPrograms ==
    { <<Main("wait")>>,
      <<Main("promise"), Main("value")>>,
      <<Main("wait"), Cancel("value"), Main("value")>>,
      <<Main("promise"), Cancel("value")>>,
      <<Main("child"), Cancel("value")>>,
      <<Main("throw"), Main("value"), Catch("value"), Main("value")>>,
      <<Main("throw"), Catch("throw"), Main("value"), Catch("value")>>,
      <<Main("promise"), Main("value"), Catch("promise"), Finally("value")>>,
      <<Main("spawn"), Main("child"), Catch("value")>>,
      <<Main("child"), Main("value")>>,
      <<Finally("value"), Main("value")>>,
      <<Catch("value"), Main("value")>>,
      <<Cancel("value"), Main("promise")>>,
      <<Main("throw"), Catch("throw")>>,
      <<Main("promise"), Finally("throw")>> }
SecondPrograms ==
    { <<Main("wait")>>, <<Main("promise")>>, <<Main("throw")>>, <<Main("child")>> }
ThirdPrograms ==
    { <<Main("wait")>>, <<Main("throw"), Catch("value")>> }

Creates(p) == {i \in 1..Len(p) : p[i].beh \in {"child", "spawn"}}

\* a task that is never created has no state list
InitTasks ==
    /\ \E p1 \in RootPrograms :
       \E p2 \in IF Creates(p1) # {} THEN SecondPrograms ELSE {<<>>} :
       \E p3 \in IF Cardinality(Creates(p1)) + Cardinality(Creates(p2)) > 1
                 THEN ThirdPrograms ELSE {<<>>} :
       \E async \in BOOLEAN :
          tasks = [t \in TaskIds |->
                      IF t = 1 THEN Itask(p1, async)
                      ELSE IF t = 2 THEN NotCreated(p2) ELSE NotCreated(p3)]
    /\ nCancels = 0

\* no task exists
NoTasks ==
    /\ tasks = [t \in TaskIds |-> NotCreated(<<>>)]
    /\ nCancels = 0

CommitTasks(S) ==
    /\ ~ S.overflow
    /\ tasks' = S.tk

\* the process.nextTick queue is empty: timers, immediates and settlements of
\* outside promises run only then
NoTick == \A u \in TaskIds : ~ tasks[u].tick

\* a process.nextTick(() => this._run()) callback runs
\* what the callback leaves behind
RunResult(t) ==
    LET S == [PackTasks EXCEPT !.tk[t].tick = FALSE] IN
    IF tasks[t].completed \/ tasks[t].running THEN S
    ELSE Drain(RunLoop([S EXCEPT !.tk[t].running = TRUE], t))

Run(t) ==
    /\ tasks[t].created
    /\ tasks[t].tick
    /\ CommitTasks(RunResult(t))
    /\ UNCHANGED <<nCancels, notTasks>>

\* the promise a state function returned settles
PromiseSettles(t, ok) ==
    /\ NoTick
    /\ tasks[t].pc \in {"await_promise", "finally_promise"}
    /\ LET i == tasks[t].visits[Len(tasks[t].visits)].idx IN
       CommitTasks(Drain(Settled(PackTasks, t, ok,
                                 IF ok THEN Resolution(i) ELSE Rejection(i))))
    /\ UNCHANGED <<nCancels, notTasks>>

\* task.continue(ret), called by the application
Continue(t) ==
    /\ tasks[t].created
    /\ ~ tasks[t].completed
    /\ LET S == [PackTasks EXCEPT !.tk[t].retval = ContinueValue,
                                  !.tk[t].error = Undefined,
                                  !.tk[t].continue_reject = FALSE,
                                  !.tk[t].cancelled = FALSE,
                                  !.mq = IF tasks[t].continue_reject
                                         THEN <<Settle(t, TRUE, ContinueValue)>> ELSE <<>>]
       IN CommitTasks(Drain(S))
    /\ UNCHANGED <<nCancels, notTasks>>

\* task._ecancel(), called by the application
CancelTask(t) ==
    /\ nCancels < MaxCancels
    /\ tasks[t].created
    /\ ~ tasks[t].completed
    /\ CommitTasks(Drain(ecancel(PackTasks, t)))
    /\ nCancels' = nCancels + 1
    /\ UNCHANGED notTasks

RECURSIVE Attached(_)
Attached(n) == IF n = 0 THEN 0 ELSE Len(tasks[n].cbs) + Attached(n - 1)

\* task.then(...) or task.finally(cb), called by the application
Attach(t, kind) ==
    /\ tasks[t].created
    /\ Attached(MaxTasks) < MaxAwaiters
    /\ LET k == tasks[t]
           a == IF k.completed
                THEN [Fire(Awaiter(kind), k.error, k.retval) EXCEPT !.late = TRUE]
                ELSE Awaiter(kind)
       IN tasks' = [tasks EXCEPT ![t].cbs = Append(@, a)]
    /\ UNCHANGED <<nCancels, notTasks>>

\* task.return(ret), called by the application
Return(t) ==
    /\ tasks[t].created
    /\ ~ tasks[t].completed
    /\ LET S == [PackTasks EXCEPT !.tk[t].retval = ReturnValue,
                                  !.tk[t].error = Undefined]
       IN CommitTasks(Drain(complete_internal(S, t)))
    /\ UNCHANGED <<nCancels, notTasks>>

\* task.throw(err), called by the application
ThrowTask(t, err) ==
    /\ tasks[t].created
    /\ ~ tasks[t].completed
    /\ LET S == [PackTasks EXCEPT !.tk[t].error = AsError(err)]
       IN CommitTasks(Drain(complete_internal(S, t)))
    /\ UNCHANGED <<nCancels, notTasks>>

\* the setImmediate callback of _ecancel runs
Finalize(t) ==
    /\ NoTick
    /\ tasks[t].finalize = "scheduled"
    /\ LET S == PackTasks IN
       IF tasks[t].child # {}
       THEN CommitTasks([S EXCEPT !.tk[t].finalize = "children",
                                  !.tk[t].finalize_children = tasks[t].child])
       ELSE CommitTasks(Drain(complete_internal([S EXCEPT !.tk[t].finalize = "none"], t)))
    /\ UNCHANGED <<nCancels, notTasks>>

\* a _run whose wait for the children has no timer
NoChildrenTimer(t) == FALSE

\* the timer of the wait for the children is due
ChildrenTimer(t) == NoTick /\ tasks[t].pc = "children"

\* the child-completion timeout of _run fires
ChildrenTimeoutResult(t) ==
    Drain(complete_internal([PackTasks EXCEPT !.tk[t].pc = "none"], t))

ChildrenTimeout(t) ==
    /\ ChildrenTimer(t)
    /\ CommitTasks(ChildrenTimeoutResult(t))
    /\ UNCHANGED <<nCancels, notTasks>>

\* the child-completion timeout of the _ecancel callback fires
FinalizeTimeout(t) ==
    /\ NoTick
    /\ tasks[t].finalize = "children"
    /\ CommitTasks(Drain(complete_internal([PackTasks EXCEPT !.tk[t].finalize = "none"], t)))
    /\ UNCHANGED <<nCancels, notTasks>>

NextTasks ==
    \/ \E t \in TaskIds : Run(t)
    \/ \E t \in TaskIds : \E ok \in BOOLEAN : PromiseSettles(t, ok)
    \/ \E t \in TaskIds : Continue(t)
    \/ \E t \in TaskIds : CancelTask(t)
    \/ \E t \in TaskIds : Finalize(t)
    \/ \E t \in TaskIds : ChildrenTimeout(t)
    \/ \E t \in TaskIds : FinalizeTimeout(t)

\* the tasks with the calls the application makes on them from outside
NextApi ==
    \/ NextTasks
    \/ \E t \in TaskIds : \E kind \in {"then", "finally"} : Attach(t, kind)
    \/ \E t \in TaskIds : Return(t)
    \/ \E t \in TaskIds : \E err \in ThrowArgs : ThrowTask(t, err)

\* no task hierarchy with contexts exists
NoHierarchy ==
    /\ hparent = <<>>
    /\ contexts = <<>>
    /\ closes = <<>>
    /\ nextHMsg = 0

\* -------------------------------------------- task hierarchy with Contexts
\* tasks created, sendMessage calls and close() calls over all contexts
MaxNodes == 3
MaxHierSends == 2
MaxCloses == 1

HNodes == 1..MaxNodes
TaskPrompt(n) == "Prompt " \o ToString(n)

\* opts.tag and msg.tag of a message that has none
NoTag == ""

\* an envelope of _msgs; the summary flag is opts.summary, tag is opts.tag and msg_tag
\* is the tag property of the message itself
HMsg(msgid, role, content, replied, summary) ==
    [msgid |-> msgid, role |-> role, content |-> content, replied |-> replied,
     summary |-> summary, tool_calls |-> <<>>, tool_call_id |-> 0,
     tag |-> NoTag, msg_tag |-> NoTag]

NoContext ==
    [exists |-> FALSE, prompt |-> "", msgs |-> <<>>, sequential_mode |-> FALSE,
     processing_sequential |-> FALSE, sequential_queue |-> <<>>, immediates |-> 0,
     inflight |-> {}, outbound |-> <<>>, waitingQueue |-> <<>>]

\* new Context(prompt, task, {sequential_mode})
Context(prompt, seq) ==
    [NoContext EXCEPT !.exists = TRUE, !.prompt = prompt, !.sequential_mode = seq]

NoClose == [phase |-> "none", target |-> 0, not_replied |-> <<>>, calls |-> 0]

\* the tasks met by task = task.parent, starting above t
RECURSIVE Ancestors(_, _)
Ancestors(hp, t) == IF hp[t] = 0 THEN {} ELSE {hp[t]} \cup Ancestors(hp, hp[t])

\* Itask.findContext; 0 is null
RECURSIVE findContext(_, _, _)
findContext(hp, cx, t) ==
    IF t = 0 THEN 0
    ELSE IF cx[t].exists THEN t ELSE findContext(hp, cx, hp[t])

\* Context.getParentContext of the context of task n
getParentContext(hp, cx, n) ==
    IF hp[n] = 0 THEN 0 ELSE findContext(hp, cx, hp[n])

PushBack(acc, c) == Append(acc, c)

\* contexts.unshift(task.context)
Unshift(acc, c) == <<c>> \o acc

\* Itask.getAncestorContexts: the contexts are named by their tasks
RECURSIVE WalkUp(_, _, _, _)
WalkUp(hp, cx, task, acc) ==
    IF task = 0 THEN acc
    ELSE WalkUp(hp, cx, hp[task], IF cx[task].exists THEN Unshift(acc, task) ELSE acc)
getAncestorContexts(hp, cx, t) == WalkUp(hp, cx, t, <<>>)

\* Context.getAncestorContexts: the same without the context itself
ContextAncestors(hp, cx, n) ==
    SelectSeq(getAncestorContexts(hp, cx, n), LAMBDA c : c # n)

\* an entry of the outbound queue
Entry(role, content) ==
    [role |-> role, content |-> content, tool_calls |-> <<>>, tool_call_id |-> 0,
     tag |-> NoTag]
SystemPrompt(c) == Entry("system", c.prompt)
\* the __msgs getter
PlainMsgs(c) ==
    [i \in 1..Len(c.msgs) |->
        [Entry(c.msgs[i].role, c.msgs[i].content) EXCEPT
            !.tool_calls = c.msgs[i].tool_calls,
            !.tool_call_id = c.msgs[i].tool_call_id,
            !.tag = c.msgs[i].msg_tag]]

\* _validateToolResponses
Validated(m, toolCallIds, toolResponseIds) ==
    IF m.role = "tool" /\ m.tool_call_id # 0
    THEN IF m.tool_call_id \in toolCallIds THEN <<m>> ELSE <<>>
    ELSE IF m.role = "assistant" /\ m.tool_calls # <<>>
    THEN LET valid == SelectSeq(m.tool_calls, LAMBDA id : id \in toolResponseIds)
         IN IF valid # <<>> THEN <<[m EXCEPT !.tool_calls = valid]>>
            ELSE IF m.content # "" THEN <<[m EXCEPT !.tool_calls = <<>>]>> ELSE <<>>
    ELSE <<m>>
RECURSIVE ValidateEach(_, _, _)
ValidateEach(q, toolCallIds, toolResponseIds) ==
    IF q = <<>> THEN <<>>
    ELSE Validated(Head(q), toolCallIds, toolResponseIds)
            \o ValidateEach(Tail(q), toolCallIds, toolResponseIds)
validateToolResponses(q) ==
    LET toolCallIds == UNION {{q[i].tool_calls[j] : j \in 1..Len(q[i].tool_calls)}
                                 : i \in 1..Len(q)}
        toolResponseIds == {q[i].tool_call_id :
                               i \in {j \in 1..Len(q) : q[j].role = "tool"
                                                        /\ q[j].tool_call_id # 0}}
    IN ValidateEach(q, toolCallIds, toolResponseIds)

\* _createMsgQ without add_tag and tag_filter
RECURSIVE AncestorQueue(_, _)
AncestorQueue(cx, ancestors) ==
    IF ancestors = <<>> THEN <<>>
    ELSE LET ctx == cx[Head(ancestors)]
         IN (IF ctx.prompt # "" THEN <<SystemPrompt(ctx)>> ELSE <<>>)
               \o PlainMsgs(ctx) \o AncestorQueue(cx, Tail(ancestors))
fullQueue(hp, cx, n) ==
    AncestorQueue(cx, ContextAncestors(hp, cx, n))
       \o (IF cx[n].prompt # "" THEN <<SystemPrompt(cx[n])>> ELSE <<>>)
       \o PlainMsgs(cx[n])
\* a queue that goes out as it was assembled
Unvalidated(hp, cx, n) == fullQueue(hp, cx, n)
createMsgQ(hp, cx, n) == validateToolResponses(fullQueue(hp, cx, n))

\* the filter of _createMsgQ for tag_filter
KeptFor(m, tag_filter) == m.role = "system" \/ m.summary \/ m.tag = tag_filter
FilteredMsgs(c, tag_filter) ==
    PlainMsgs([c EXCEPT !.msgs = SelectSeq(@, LAMBDA m : KeptFor(m, tag_filter))])
RECURSIVE FilteredAncestorQueue(_, _, _)
FilteredAncestorQueue(cx, ancestors, tag_filter) ==
    IF ancestors = <<>> THEN <<>>
    ELSE LET ctx == cx[Head(ancestors)]
         IN (IF ctx.prompt # "" THEN <<SystemPrompt(ctx)>> ELSE <<>>)
               \o FilteredMsgs(ctx, tag_filter)
               \o FilteredAncestorQueue(cx, Tail(ancestors), tag_filter)
\* _createMsgQ(false, tag_filter); NoTag is undefined
createFilteredMsgQ(hp, cx, n, tag_filter) ==
    IF tag_filter = NoTag THEN createMsgQ(hp, cx, n)
    ELSE validateToolResponses(
            FilteredAncestorQueue(cx, ContextAncestors(hp, cx, n), tag_filter)
               \o (IF cx[n].prompt # "" THEN <<SystemPrompt(cx[n])>> ELSE <<>>)
               \o FilteredMsgs(cx[n], tag_filter))

\* _hasPendingToolCalls of a context without deferred calls
PendingInBuffer(ms) ==
    \E i \in 1..Len(ms) : \E j \in 1..Len(ms[i].tool_calls) :
        ~ \E r \in 1..Len(ms) :
              ms[r].role = "tool" /\ ms[r].tool_call_id = ms[i].tool_calls[j]

\* a waiting queue that forgets all but its last message when it is admitted
AdmitLast(c) ==
    [c EXCEPT !.msgs = @ \o (IF c.waitingQueue = <<>> THEN <<>>
                              ELSE <<HMsg(c.waitingQueue[Len(c.waitingQueue)], "user",
                                          "message "
                                            \o ToString(c.waitingQueue[Len(c.waitingQueue)]),
                                          0, FALSE)>>),
              !.waitingQueue = <<>>]

\* _processWaitingQueue: _createMsgObj for every waiting message, in order
AdmitWaiting(c) ==
    [c EXCEPT !.msgs = @ \o [i \in 1..Len(c.waitingQueue) |->
                                HMsg(c.waitingQueue[i], "user",
                                     "message " \o ToString(c.waitingQueue[i]), 0, FALSE)],
              !.waitingQueue = <<>>]

\* "if (this._waitingQueue.length > 0 && !this._hasPendingToolCalls())"
AdmitIfClear(c) ==
    IF c.waitingQueue # <<>> /\ ~ PendingInBuffer(c.msgs) THEN AdmitWaiting(c) ELSE c

\* _createMsgObj and the hand-over to the backend, for a context whose replies bear no
\* tool calls and that stays below its token limit
Submit(hp, cx, n, k) ==
    LET c == cx[n]
        o == HMsg(k, "user", "message " \o ToString(k), 0, FALSE)
        cx1 == [cx EXCEPT ![n] = AdmitIfClear([c EXCEPT
                                     !.msgs = Append(@, o),
                                     !.inflight = @ \cup {k},
                                     !.processing_sequential = c.sequential_mode])]
    IN [cx1 EXCEPT ![n].outbound = createMsgQ(hp, cx1, n)]

\* _sendMessageInternal of a top-level call that found _processing_sequential unset:
\* with a tool call pending the message waits and the call returns the queued marker
SendInternal(hp, cx, n, k) ==
    IF PendingInBuffer(cx[n].msgs)
    THEN [cx EXCEPT ![n].waitingQueue = Append(@, k),
                    ![n].immediates = IF cx[n].sequential_mode THEN @ + 1 ELSE @]
    ELSE Submit(hp, cx, n, k)

\* pushSummary
pushSummary(c, summary) ==
    [c EXCEPT !.msgs = Append(@, HMsg(0, "user", SummaryText \o summary, 2, TRUE))]

\* m.summary of an envelope: the flag is kept in opts, the envelope has no such property
TopLevelSummary(m) == FALSE

DropNotReplied(buf, not_replied) == buf

\* this._msgs.push(...not_replied)
Reattach(buf, not_replied) == buf \o not_replied

\* close() from getParentContext on: the queued messages move to the parent context,
\* then _summarizeContext(true, parentCtx) up to its await
CloseBody(n, cl) ==
    LET parentCtx == getParentContext(hparent, contexts, n)
        c == contexts[n]
        cx0 == IF parentCtx # 0 /\ c.waitingQueue # <<>>
               THEN [contexts EXCEPT ![parentCtx].waitingQueue = @ \o c.waitingQueue,
                                     ![n].waitingQueue = <<>>]
               ELSE contexts
        cx1 == IF parentCtx # 0 /\ c.sequential_queue # <<>>
               THEN [cx0 EXCEPT ![parentCtx].sequential_queue = @ \o c.sequential_queue,
                                ![n].sequential_queue = <<>>]
               ELSE cx0
        close == TRUE
        summarize == SelectSeq(c.msgs, LAMBDA m : (~ close \/ ~ TopLevelSummary(m))
                                                  /\ m.replied # 0)
        not_replied == SelectSeq(c.msgs, LAMBDA m : m.replied = 0)
    IN /\ contexts' = cx1
       /\ closes' = IF summarize = <<>>
                    THEN [cl EXCEPT ![n].phase = "none"]
                    ELSE [cl EXCEPT ![n].phase = "summarizing",
                                        ![n].target = parentCtx,
                                        ![n].not_replied = not_replied]

\* new Itask({spawn_parent: p}); p = 0: a root task
NewTask(n, p) ==
    /\ hparent[n] = -1
    /\ \A m \in 1..(n - 1) : hparent[m] # -1
    /\ p = 0 \/ (p \in HNodes /\ hparent[p] # -1)
    /\ hparent' = [hparent EXCEPT ![n] = p]
    /\ UNCHANGED <<contexts, closes, nextHMsg, notHier>>

\* p.spawn(c) on a root task
Spawn(p, c) ==
    /\ hparent[p] # -1 /\ hparent[c] = 0
    /\ p # c
    /\ c \notin Ancestors(hparent, p)
    /\ hparent' = [hparent EXCEPT ![c] = p]
    /\ UNCHANGED <<contexts, closes, nextHMsg, notHier>>

\* the contexts given to tasks: with a prompt or with an empty one, sequential or not
ContextKinds ==
    { [withPrompt |-> TRUE, sequential_mode |-> FALSE],
      [withPrompt |-> TRUE, sequential_mode |-> TRUE],
      [withPrompt |-> FALSE, sequential_mode |-> FALSE] }

\* task.setContext(new Context(prompt, task, config))
SetContext(n, kind) ==
    /\ hparent[n] # -1
    /\ ~ contexts[n].exists
    /\ contexts' = [contexts EXCEPT
                       ![n] = Context(IF kind.withPrompt THEN TaskPrompt(n) ELSE "",
                                      kind.sequential_mode)]
    /\ UNCHANGED <<hparent, closes, nextHMsg, notHier>>

\* sendMessage('user', ...) on the context of task n, while fewer than limit calls
\* were made
SendOn(n, limit) ==
    /\ contexts[n].exists
    /\ nextHMsg < limit
    /\ nextHMsg' = nextHMsg + 1
    /\ contexts' = IF contexts[n].sequential_mode /\ contexts[n].processing_sequential
                   THEN [contexts EXCEPT ![n].sequential_queue = Append(@, nextHMsg')]
                   ELSE SendInternal(hparent, contexts, n, nextHMsg')
    /\ UNCHANGED <<hparent, closes, notHier>>

HierSend(n) == SendOn(n, MaxHierSends)

\* the backend replies to message k of context n
HierReply(n, k) ==
    /\ k \in contexts[n].inflight
    /\ LET Mark(ms) == [i \in 1..Len(ms) |->
                           IF ms[i].msgid = k /\ ms[i].role = "user"
                           THEN [ms[i] EXCEPT !.replied = 1] ELSE ms[i]]
           c == contexts[n]
       IN /\ contexts' = [contexts EXCEPT
                 ![n] = AdmitIfClear([c EXCEPT
                           !.msgs = Append(Mark(@), HMsg(k, "assistant",
                                                         "reply " \o ToString(k), 3, FALSE)),
                           !.inflight = @ \ {k},
                           !.processing_sequential = FALSE,
                           !.immediates = IF c.sequential_mode THEN @ + 1 ELSE @])]
          /\ closes' = [closes EXCEPT ![n].not_replied = Mark(@)]
    /\ UNCHANGED <<hparent, nextHMsg, notHier>>

\* a stored message: the id stands for the random one loadHistory gives
Stored(role, content, tool_calls, tool_call_id) ==
    [HMsg(-1, role, content, 1, FALSE) EXCEPT
        !.tool_calls = tool_calls, !.tool_call_id = tool_call_id]

\* the messages a stored chat history is made of, and the histories the store returns
MaxHistory == 2
StoredMsgs ==
    { Stored("user", "u", <<>>, 0),
      Stored("assistant", "a", <<1>>, 0),
      Stored("assistant", "", <<1, 2>>, 0),
      Stored("assistant", "", <<>>, 0),
      Stored("tool", "r1", <<>>, 1),
      Stored("tool", "r3", <<>>, 3) }
Histories == UNION {[1..k -> StoredMsgs] : k \in 1..MaxHistory}

\* loadHistory(store): the history goes in after the last system message
LoadHistory(n, messages) ==
    /\ contexts[n].exists
    /\ \A i \in 1..Len(contexts[n].msgs) : contexts[n].msgs[i].msgid # -1
    /\ LET ms == contexts[n].msgs
           sys == {i \in 1..Len(ms) : ms[i].role = "system"}
           insertIdx == IF sys = {} THEN 0 ELSE SeqMax(sys)
       IN contexts' = [contexts EXCEPT
              ![n].msgs = SubSeq(ms, 1, insertIdx) \o messages
                             \o SubSeq(ms, insertIdx + 1, Len(ms))]
    /\ UNCHANGED <<hparent, closes, nextHMsg, notHier>>

\* setImmediate(() => this._processSequentialQueue())
HierImmediate(n) ==
    /\ contexts[n].immediates > 0
    /\ LET c == contexts[n]
           cx1 == [contexts EXCEPT ![n].immediates = @ - 1]
       IN contexts' = IF c.processing_sequential \/ c.sequential_queue = <<>>
                      THEN cx1
                      \* every queued call comes back with the queued marker
                      ELSE IF PendingInBuffer(c.msgs)
                      THEN [cx1 EXCEPT ![n].waitingQueue = @ \o c.sequential_queue,
                                       ![n].sequential_queue = <<>>]
                      ELSE Submit(hparent,
                                  [cx1 EXCEPT ![n].sequential_queue = Tail(@)],
                                  n, Head(c.sequential_queue))
    /\ UNCHANGED <<hparent, closes, nextHMsg, notHier>>

RECURSIVE CloseCalls(_)
CloseCalls(nodes) ==
    IF nodes = {} THEN 0
    ELSE LET n == CHOOSE x \in nodes : TRUE IN closes[n].calls + CloseCalls(nodes \ {n})

\* close() is called on the context of task n
Close(n) ==
    /\ contexts[n].exists
    /\ closes[n].phase = "none"
    /\ CloseCalls(HNodes) < MaxCloses
    /\ IF contexts[n].sequential_mode /\ contexts[n].processing_sequential
       THEN /\ closes' = [closes EXCEPT ![n].phase = "waiting", ![n].calls = @ + 1]
            /\ UNCHANGED contexts
       ELSE CloseBody(n, [closes EXCEPT ![n].calls = @ + 1])
    /\ UNCHANGED <<hparent, nextHMsg, notHier>>

\* the 100 ms timer of close() fires and the submission in flight has completed
CloseWake(n) ==
    /\ closes[n].phase = "waiting"
    /\ ~ contexts[n].processing_sequential
    /\ CloseBody(n, closes)
    /\ UNCHANGED <<hparent, nextHMsg, notHier>>

\* the summary request of close() settles: with a text, with an empty text, or it fails
CloseFinish(n, how) ==
    /\ closes[n].phase = "summarizing"
    /\ closes' = [closes EXCEPT ![n].phase = "none", ![n].target = 0,
                                ![n].not_replied = <<>>]
    /\ IF how = "rejected" THEN UNCHANGED contexts
       ELSE LET close == TRUE
                keep == SelectSeq(contexts[n].msgs, LAMBDA m : ~ close /\ TopLevelSummary(m))
                targetCtx == closes[n].target
                cx1 == [contexts EXCEPT ![n].msgs = keep]
                cx2 == IF how = "empty" THEN cx1
                       ELSE IF targetCtx # 0
                       THEN [cx1 EXCEPT ![targetCtx] = pushSummary(@, "summary " \o ToString(n))]
                       ELSE [cx1 EXCEPT ![n] = pushSummary(@, "summary " \o ToString(n))]
            IN contexts' = [cx2 EXCEPT ![n].msgs = Reattach(@, closes[n].not_replied)]
    /\ UNCHANGED <<hparent, nextHMsg, notHier>>

\* config.tag of the context of task n
CtxTag(n) == "ctx " \o ToString(n)

\* "if (add_tag) m.msg.tag = ctx.tag" on the summary-flagged and system-role messages
TagSummaries(c, tag) ==
    [c EXCEPT !.msgs = [i \in 1..Len(c.msgs) |->
                           IF c.msgs[i].summary \/ c.msgs[i].role = "system"
                           THEN [c.msgs[i] EXCEPT !.msg_tag = tag] ELSE c.msgs[i]]]

\* getMsgContext(add_tag): the array it returns holds the stored message objects
GetMsgContext(n, add_tag) ==
    /\ contexts[n].exists
    /\ LET ancestorContexts == ContextAncestors(hparent, contexts, n)
           visited == {n} \cup {ancestorContexts[i] : i \in 1..Len(ancestorContexts)}
       IN contexts' = IF add_tag
                      THEN [a \in HNodes |-> IF a \in visited
                                             THEN TagSummaries(contexts[a], CtxTag(a))
                                             ELSE contexts[a]]
                      ELSE contexts
    /\ UNCHANGED <<hparent, closes, nextHMsg, notHier>>

\* ------------------------------------------------ tagged messages, tool rounds
\* sendMessage calls with a tag and replies with a tool call, over all contexts
MaxTagSends == 2
MaxTagCalls == 1
\* the context_id of the tasks that send through a context
Tags == {"t1", "t2"}

\* the tool calls the backend has asked for so far
RECURSIVE CallsMade(_)
CallsMade(n) ==
    IF n = 0 THEN 0
    ELSE Cardinality({i \in 1..Len(contexts[n].msgs) :
                         contexts[n].msgs[i].tool_calls # <<>>}) + CallsMade(n - 1)

\* the message id of the tool message that answers call id
ToolMsgId(id) == MaxTagSends + id

\* _insertToolResponseAtCorrectPosition on a buffer whose last element is the response
InsertAfterCall(ms, tool_call_id) ==
    LET matching == {i \in 1..Len(ms) :
                        \E j \in 1..Len(ms[i].tool_calls) : ms[i].tool_calls[j] = tool_call_id}
        finalInsertIndex == IF matching # {} THEN SeqMax(matching) ELSE -1
        n == Len(ms)
    IN IF finalInsertIndex # -1 /\ finalInsertIndex < n
       THEN SubSeq(ms, 1, finalInsertIndex) \o <<ms[n]>>
            \o SubSeq(ms, finalInsertIndex + 1, n - 1)
       ELSE ms

\* _processSendMessage of message o up to openai.send: the queue is assembled with the
\* tag of o.opts as filter
Request(hp, cx, n, o) ==
    LET cx1 == [cx EXCEPT ![n] = AdmitIfClear([@ EXCEPT !.inflight = @ \cup {o.msgid}])]
    IN [cx1 EXCEPT ![n].outbound = createFilteredMsgQ(hp, cx1, n, o.tag)]

\* ctx.sendMessage('user', content, functions, {tag}), as Itask.sendMessage calls it;
\* the application sends while no tool call of the context is unanswered
TagSend(n, tag) ==
    /\ contexts[n].exists
    /\ nextHMsg < MaxTagSends
    /\ ~ PendingInBuffer(contexts[n].msgs)
    /\ nextHMsg' = nextHMsg + 1
    /\ LET o == [HMsg(nextHMsg', "user", "message " \o ToString(nextHMsg'), 0, FALSE)
                    EXCEPT !.tag = tag]
       IN contexts' = Request(hparent, [contexts EXCEPT ![n].msgs = Append(@, o)], n, o)
    /\ UNCHANGED <<hparent, closes, notHier>>

\* the backend replies to request k of context n, with one tool call or with none: the
\* reply is stored with the opts of the message it answers
TagReply(n, k, withCall) ==
    /\ k \in contexts[n].inflight
    /\ withCall => CallsMade(MaxNodes) < MaxTagCalls
    /\ LET c == contexts[n]
           o == CHOOSE m \in {c.msgs[i] : i \in 1..Len(c.msgs)} :
                    m.msgid = k /\ m.role \in {"user", "tool"}
           Mark(ms) == [i \in 1..Len(ms) |->
                           IF ms[i].msgid = k /\ ms[i].role \in {"user", "tool"}
                           THEN [ms[i] EXCEPT !.replied = 1] ELSE ms[i]]
           reply == [HMsg(k, "assistant", "reply " \o ToString(k), 3, FALSE) EXCEPT
                        !.tag = o.tag,
                        !.tool_calls = IF withCall THEN <<CallsMade(MaxNodes) + 1>>
                                       ELSE <<>>]
       IN contexts' = [contexts EXCEPT
                          ![n] = AdmitIfClear([c EXCEPT !.msgs = Append(Mark(@), reply),
                                                        !.inflight = @ \ {k}])]
    /\ UNCHANGED <<hparent, closes, nextHMsg, notHier>>

\* the handler of tool call id has settled: its result goes back with
\* sendMessage('tool', content, functions, {name, tool_call_id, _recursive_depth, model})
ToolDone(n, id) ==
    /\ \E i \in 1..Len(contexts[n].msgs) :
          \E j \in 1..Len(contexts[n].msgs[i].tool_calls) :
              contexts[n].msgs[i].tool_calls[j] = id
    /\ \A i \in 1..Len(contexts[n].msgs) :
          ~ (contexts[n].msgs[i].role = "tool" /\ contexts[n].msgs[i].tool_call_id = id)
    /\ LET o == [HMsg(ToolMsgId(id), "tool", "result " \o ToString(id), 0, FALSE)
                    EXCEPT !.tool_call_id = id]
       IN contexts' = Request(hparent,
                              [contexts EXCEPT
                                  ![n].msgs = InsertAfterCall(Append(@, o), id)],
                              n, o)
    /\ UNCHANGED <<hparent, closes, nextHMsg, notHier>>

\* ctx.pushSummary(summary), called by the application once per context
PushSummary(n) ==
    /\ contexts[n].exists
    /\ \A i \in 1..Len(contexts[n].msgs) : ~ contexts[n].msgs[i].summary
    /\ contexts' = [contexts EXCEPT ![n] = pushSummary(@, "note " \o ToString(n))]
    /\ UNCHANGED <<hparent, closes, nextHMsg, notHier>>

HierStart ==
    /\ hparent = [n \in HNodes |-> -1]
    /\ contexts = [n \in HNodes |-> NoContext]
    /\ closes = [n \in HNodes |-> NoClose]
    /\ nextHMsg = 0

NextHier ==
    \/ \E n \in HNodes : \E p \in 0..MaxNodes : NewTask(n, p)
    \/ \E p, c \in HNodes : Spawn(p, c)
    \/ \E n \in HNodes : \E kind \in ContextKinds : SetContext(n, kind)
    \/ \E n \in HNodes : HierSend(n)
    \/ \E n \in HNodes : \E k \in 1..MaxHierSends : HierReply(n, k)
    \/ \E n \in HNodes : HierImmediate(n)
    \/ \E n \in HNodes : Close(n)
    \/ \E n \in HNodes : CloseWake(n)
    \/ \E n \in HNodes : \E how \in {"summary", "empty", "rejected"} : CloseFinish(n, how)



\* ----------------------------------------------------- actions of Context
EngineStart ==
    /\ msgs = <<>>
    /\ waitingQueue = <<>>
    /\ deferred_tool_calls = <<>>
    /\ tool_call_sequence = <<>>
    /\ active_tool_calls = EmptyMap
    /\ current_depth = 0
    /\ sequential_mode \in BOOLEAN
    /\ sequential_queue = <<>>
    /\ processing_sequential = FALSE
    /\ immediates = 0
    /\ execs = EmptyMap
    /\ chains = [c \in 0..MaxSeqSends |-> <<>>]
    /\ outcome = [k \in 1..MaxSeqSends |-> "none"]
    /\ nextMsg = 1
    /\ nextCall = 1
    /\ nSent = 0
    /\ nToolReplies = 0
    /\ nRequests = 0
    /\ nSummaries = 0

\* sendMessage(role, content, functions, opts), called by the application
SendMessage(content, high) ==
    /\ nSent < (IF sequential_mode THEN MaxSeqSends ELSE MaxSends)
    /\ nSent' = nSent + 1
    /\ UNCHANGED <<nextCall, nToolReplies, notEngine>>
    /\ LET k == nSent + 1 IN
       IF content = ""
       THEN Commit(k, [Pack(k, high) EXCEPT !.outcome[k] = "rejected"])
       ELSE IF sequential_mode /\ processing_sequential
       THEN Commit(k, [Pack(k, high) EXCEPT
                         !.sequential_queue =
                             Append(@, [role |-> "user", content |-> content, sid |-> k]),
                         !.outcome[k] = "seqqueued"])
       ELSE Commit(k, SendMessageInternal(Pack(k, high), "user", content, 0, k, FALSE, 0))

\* the summary arrives: the buffer becomes the summary followed by the messages that
\* had no reply when the pass began; the queue is then assembled and sent
SummarizeFinish(c) ==
    /\ chains[c] # <<>>
    /\ Top(Pack(c, FALSE)).pc = "summarizing"
    /\ LET S == Pack(c, FALSE)
           f == Top(S)
           summary == Envelope(0, "user", SummaryText, <<>>, 0, 2, 0)
       IN Commit(c, SetTop([S EXCEPT !.msgs = <<summary>> \o f.not_replied,
                                     !.nRequests = @ + 1],
                           [f EXCEPT !.pc = "backend", !.summarize = <<>>,
                                     !.not_replied = <<>>]))
    /\ UNCHANGED <<nextCall, nSent, nToolReplies, notEngine>>

\* openai.send rejects, in _processSendMessage or in _summarizeMessages
BackendFail(c, err, high) ==
    /\ Cardinality({k \in 1..MaxSeqSends :
                       \E e \in BackendErrors : outcome[k] = Rejected(e)}) < MaxFailures
    /\ chains[c] # <<>>
    /\ Top(Pack(c, high)).pc \in {"backend", "summarizing"}
    /\ Commit(c, Throw(Pack(c, high), err))
    /\ UNCHANGED <<nextCall, nSent, nToolReplies, notEngine>>

\* openai.send resolves with a reply, with or without tool calls
BackendReply(c, list, high) ==
    /\ chains[c] # <<>>
    /\ Top(Pack(c, high)).pc = "backend"
    /\ list # <<>> => nToolReplies < MaxToolReplies
    /\ LET calls == [i \in 1..Len(list) |->
                        [id |-> nextCall + i - 1, name |-> list[i].name, args |-> list[i].args]]
       IN Commit(c, OnReply(Pack(c, high), calls, "reply"))
    /\ nextCall' = nextCall + Len(list)
    /\ nToolReplies' = IF list # <<>> THEN nToolReplies + 1 ELSE nToolReplies
    /\ UNCHANGED <<nSent, notEngine>>

\* the awaited handler settles before the timer fires
HandlerSettle(c, how, high) ==
    /\ chains[c] # <<>>
    /\ Top(Pack(c, high)).pc = "exec"
    /\ LET f == Top(Pack(c, high))
           call == f.items[f.idx].call
       IN /\ execs[call.id].h = "running"
          /\ ~ execs[call.id].completed
          /\ LET S1 == [Pack(c, high) EXCEPT !.execs[call.id] = ExecSettle(@, call, how)]
             IN Commit(c, AfterExec(S1, S1.execs[call.id].result))
    /\ UNCHANGED <<nextCall, nSent, nToolReplies, notEngine>>

\* the timer of an execution fires first
TimerFire(c, high) ==
    /\ chains[c] # <<>>
    /\ Top(Pack(c, high)).pc = "exec"
    /\ LET f == Top(Pack(c, high))
           call == f.items[f.idx].call
       IN /\ execs[call.id].timer = "armed"
          /\ Cardinality({id \in DOMAIN execs : execs[id].timer = "fired"}) < MaxTimeouts
          /\ LET S1 == [Pack(c, high) EXCEPT !.execs[call.id] = ExecTimeout(@, call)]
             IN Commit(c, AfterExec(S1, S1.execs[call.id].result))
    /\ UNCHANGED <<nextCall, nSent, nToolReplies, notEngine>>

\* a handler whose execution already timed out settles later
LateSettle(id, how) ==
    /\ id \in DOMAIN execs
    /\ execs[id].h = "running"
    /\ execs[id].completed
    /\ execs' = [execs EXCEPT ![id] = ExecSettle(@, execs[id].call, how)]
    /\ UNCHANGED <<msgs, waitingQueue, deferred_tool_calls, tool_call_sequence,
                   active_tool_calls, current_depth, sequential_mode, sequential_queue,
                   processing_sequential, immediates, chains, outcome, nextMsg,
                   nextCall, nSent, nToolReplies, nRequests, nSummaries, notEngine>>

\* a drain that starts whether or not a cycle is being processed
ImmediateFireUnguarded(high) ==
    /\ immediates > 0
    /\ LET S == [Pack(0, high) EXCEPT !.immediates = @ - 1] IN
       IF Len(sequential_queue) = 0
       THEN Commit(0, S)
       ELSE Commit(0, DrainLoop(Push([S EXCEPT !.processing_sequential = TRUE],
                                     Frame("drain", "entry", 0, 0, FALSE, FALSE, 0, FALSE))))
    /\ UNCHANGED <<nextCall, nSent, nToolReplies, notEngine>>

\* a setImmediate(() => this._processSequentialQueue()) callback runs
ImmediateFire(high) ==
    /\ immediates > 0
    /\ LET S == [Pack(0, high) EXCEPT !.immediates = @ - 1] IN
       IF processing_sequential \/ Len(sequential_queue) = 0
       THEN Commit(0, S)
       ELSE Commit(0, DrainLoop(Push([S EXCEPT !.processing_sequential = TRUE],
                                     Frame("drain", "entry", 0, 0, FALSE, FALSE, 0, FALSE))))
    /\ UNCHANGED <<nextCall, nSent, nToolReplies, notEngine>>

NextEngine ==
    \/ \E content \in {"", "m"} : \E high \in BOOLEAN : SendMessage(content, high)
    \/ \E c \in 0..MaxSeqSends : SummarizeFinish(c)
    \/ \E c \in 0..MaxSeqSends : \E list \in {<<>>} \cup ToolCallLists :
           \E high \in BOOLEAN : BackendReply(c, list, high)
    \/ \E c \in 0..MaxSeqSends : \E how \in {"ok", "err"} :
           \E high \in BOOLEAN : HandlerSettle(c, how, high)
    \/ \E c \in 0..MaxSeqSends : \E high \in BOOLEAN : TimerFire(c, high)
    \/ \E id \in DOMAIN execs : \E how \in {"ok", "err"} : LateSettle(id, how)
    \/ \E high \in BOOLEAN : ImmediateFire(high)

\* the same context while token usage stays under lower_limit (no summarization
\* pass), with replies that call two different tools and with requests that fail
NextRounds ==
    \/ \E content \in {"", "m"} : SendMessage(content, FALSE)
    \/ \E c \in 0..MaxSeqSends : \E list \in {<<>>, MixedToolCalls} \cup ToolCallLists :
           BackendReply(c, list, FALSE)
    \/ \E c \in 0..MaxSeqSends : \E how \in {"ok", "err"} : HandlerSettle(c, how, FALSE)
    \/ \E c \in 0..MaxSeqSends : TimerFire(c, FALSE)
    \/ \E id \in DOMAIN execs : \E how \in {"ok", "err"} : LateSettle(id, how)
    \/ ImmediateFire(FALSE)
    \/ \E c \in 0..MaxSeqSends : \E err \in BackendErrors : BackendFail(c, err, FALSE)

\* no conversation is under way (a fresh non-sequential context)
EngineIdle == EngineStart /\ sequential_mode = FALSE

vars == <<evars, tvars, hvars>>

InitEngine == EngineStart /\ NoTasks /\ NoHierarchy
SpecEngine == InitEngine /\ [][NextEngine]_vars
SpecRounds == InitEngine /\ [][NextRounds]_vars

\* the texts of the replies (a reply that only asks for tools has none)
ReplyTexts == {"", "reply"}

\* openai.send resolves with a reply that says something or nothing
BackendText(c, list, content) ==
    /\ chains[c] # <<>>
    /\ Top(Pack(c, FALSE)).pc = "backend"
    /\ list # <<>> => nToolReplies < MaxToolReplies
    /\ LET calls == [i \in 1..Len(list) |->
                        [id |-> nextCall + i - 1, name |-> list[i].name, args |-> list[i].args]]
       IN Commit(c, OnReply(Pack(c, FALSE), calls, content))
    /\ nextCall' = nextCall + Len(list)
    /\ nToolReplies' = IF list # <<>> THEN nToolReplies + 1 ELSE nToolReplies
    /\ UNCHANGED <<nSent, notEngine>>

\* a context in concurrent mode whose backend gives replies with and without text
NextText ==
    \/ SendMessage("m", FALSE)
    \/ \E c \in 1..MaxSends : \E list \in {<<>>, MixedToolCalls} \cup ToolCallLists :
          \E content \in ReplyTexts : BackendText(c, list, content)
    \/ \E c \in 1..MaxSends : \E how \in {"ok", "err"} : HandlerSettle(c, how, FALSE)
InitText == InitEngine /\ ~ sequential_mode
SpecText == InitText /\ [][NextText]_vars

\* the k-th top-level call of a context makes at most max_depth requests of its own and
\* max_depth for each group of the backlog, to which each earlier call left one group
RECURSIVE RequestBound(_)
RequestBound(k) == IF k = 0 THEN 0 ELSE max_depth * (k + 1) + RequestBound(k - 1)
MaxRequests == RequestBound(IF MaxSends > MaxSeqSends THEN MaxSends ELSE MaxSeqSends)

\* openai.send resolves for a backend that is free to ask for tools in every reply
BackendAnswer(c, list) ==
    /\ chains[c] # <<>>
    /\ Top(Pack(c, FALSE)).pc = "backend"
    /\ list # <<>> => nToolReplies <= MaxRequests
    /\ LET calls == [i \in 1..Len(list) |->
                        [id |-> nextCall + i - 1, name |-> list[i].name, args |-> list[i].args]]
       IN Commit(c, OnReply(Pack(c, FALSE), calls, "reply"))
    /\ nextCall' = nextCall + Len(list)
    /\ nToolReplies' = IF list # <<>> THEN nToolReplies + 1 ELSE nToolReplies
    /\ UNCHANGED <<nSent, notEngine>>

\* what the backend, the handlers and the event loop do of their own accord
Progress ==
    \/ \E c \in 0..MaxSeqSends : \E list \in {<<>>, MixedToolCalls} : BackendAnswer(c, list)
    \/ \E c \in 0..MaxSeqSends : HandlerSettle(c, "ok", FALSE)
    \/ ImmediateFire(FALSE)

NextLoop == SendMessage("m", FALSE) \/ Progress

\* ENABLED <<Progress>>_vars: a request or a handler call is awaited, or a setImmediate
\* callback is due
ProgressEnabled ==
    \/ \E c \in 0..MaxSeqSends :
          /\ chains[c] # <<>>
          /\ \/ Top(Pack(c, FALSE)).pc = "backend"
             \/ /\ Top(Pack(c, FALSE)).pc = "exec"
                /\ LET f == Top(Pack(c, FALSE))
                       e == execs[f.items[f.idx].call.id]
                   IN e.h = "running" /\ ~ e.completed
    \/ immediates > 0

\* every request to the backend and every handler call returns, and the event loop
\* runs every setImmediate callback
SpecLoop ==
    /\ InitEngine
    /\ [][NextLoop]_vars
    /\ ([]<>(~ ProgressEnabled) \/ []<><<Progress>>_vars)

InitTask == InitTasks /\ EngineIdle /\ NoHierarchy
SpecTask == InitTask /\ [][NextTasks]_vars
\* the state lists of the tasks the application completes and awaits from outside
ApiPrograms ==
    { <<Main("wait")>>,
      <<Main("promise"), Main("value")>>,
      <<Main("throw"), Main("value"), Catch("value"), Main("value")>>,
      <<Main("spawn"), Main("value")>>,
      <<Main("child"), Main("value")>>,
      <<Main("throw"), Catch("throw")>> }
ApiChildPrograms == { <<Main("wait")>>, <<Main("promise")>> }
InitApi ==
    /\ \E p1 \in ApiPrograms :
       \E p2 \in IF Creates(p1) # {} THEN ApiChildPrograms ELSE {<<>>} :
       \E async \in BOOLEAN :
          tasks = [t \in TaskIds |->
                      IF t = 1 THEN Itask(p1, async)
                      ELSE IF t = 2 THEN NotCreated(p2) ELSE NotCreated(<<>>)]
    /\ nCancels = 0
    /\ EngineIdle /\ NoHierarchy
SpecApi == InitApi /\ [][NextApi]_vars

\* the task ids suffice for every task the state lists create
RECURSIVE Creations(_)
Creations(n) == IF n = 0 THEN 0 ELSE Cardinality(Creates(tasks[n].funcs)) + Creations(n - 1)
TasksFit == Creations(MaxTasks) < MaxTasks

\* ENABLED <<\E t : Run(t)>>_vars and ENABLED <<\E t : ChildrenTimeout(t)>>_vars: both
\* actions change the task they act on
RunEnabled ==
    \E t \in TaskIds : tasks[t].created /\ tasks[t].tick /\ ~ RunResult(t).overflow
ChildrenTimeoutEnabled ==
    \E t \in TaskIds : ChildrenTimer(t) /\ ~ ChildrenTimeoutResult(t).overflow

InitTaskFair == InitTask /\ TasksFit

\* the event loop runs every process.nextTick callback and fires every timer; nothing
\* obliges an outside promise to settle or the application to call continue()
SpecTaskFair ==
    /\ InitTaskFair
    /\ [][NextTasks]_vars
    /\ ([]<>(~ RunEnabled) \/ []<><<\E t \in TaskIds : Run(t)>>_vars)
    /\ ([]<>(~ ChildrenTimeoutEnabled) \/ []<><<\E t \in TaskIds : ChildrenTimeout(t)>>_vars)

InitHier == HierStart /\ EngineIdle /\ NoTasks
SpecHier == InitHier /\ [][NextHier]_vars

\* a task with a context and a child task with a context of its own, both with
\* histories in the store
QueueStart ==
    /\ hparent = [n \in HNodes |-> IF n = 1 THEN 0 ELSE IF n = 2 THEN 1 ELSE -1]
    /\ contexts = [n \in HNodes |->
                      IF n <= 2 THEN Context(TaskPrompt(n), FALSE) ELSE NoContext]
    /\ closes = [n \in HNodes |-> NoClose]
    /\ nextHMsg = 0
NextQueue ==
    \/ \E n \in HNodes : \E messages \in Histories : LoadHistory(n, messages)
    \/ \E n \in HNodes : HierSend(n)
    \/ \E n \in HNodes : \E k \in 1..MaxHierSends : HierReply(n, k)
InitQueue == QueueStart /\ EngineIdle /\ NoTasks
SpecQueue == InitQueue /\ [][NextQueue]_vars

\* a task with a context and a child task with a context of its own; tasks send through
\* them with their own tags, or the application sends without a tag
NextTags ==
    \/ \E n \in HNodes : \E tag \in Tags \cup {NoTag} : TagSend(n, tag)
    \/ \E n \in HNodes : \E k \in 1..(MaxTagSends + MaxTagCalls) :
          \E withCall \in BOOLEAN : TagReply(n, k, withCall)
    \/ \E n \in HNodes : \E id \in 1..MaxTagCalls : ToolDone(n, id)
    \/ \E n \in HNodes : PushSummary(n)
InitTags == QueueStart /\ EngineIdle /\ NoTasks
SpecTags == InitTags /\ [][NextTags]_vars

\* a task with a context and a child task with a context of its own, each sequential or
\* not; the store holds one history, whose tool call was never answered
OpenCallHistory == <<Stored("assistant", "a", <<1>>, 0)>>
CloseStart ==
    /\ hparent = [n \in HNodes |-> IF n = 1 THEN 0 ELSE IF n = 2 THEN 1 ELSE -1]
    /\ \E seq1, seq2 \in BOOLEAN :
          contexts = [n \in HNodes |->
                         IF n = 1 THEN Context(TaskPrompt(1), seq1)
                         ELSE IF n = 2 THEN Context(TaskPrompt(2), seq2) ELSE NoContext]
    /\ closes = [n \in HNodes |-> NoClose]
    /\ nextHMsg = 0
\* sendMessage calls made on the two contexts
MaxQueueSends == 3
QueueSend(n) == SendOn(n, MaxQueueSends)
\* what the event loop and the backend do by themselves
CloseProgress ==
    \/ \E n \in HNodes : \E k \in 1..MaxQueueSends : HierReply(n, k)
    \/ \E n \in HNodes : HierImmediate(n)
    \/ \E n \in HNodes : CloseWake(n)
    \/ \E n \in HNodes : \E how \in {"summary", "empty", "rejected"} : CloseFinish(n, how)
NextClose ==
    \/ \E n \in HNodes : LoadHistory(n, OpenCallHistory)
    \/ \E n \in HNodes : QueueSend(n)
    \/ \E n \in HNodes : Close(n)
    \/ CloseProgress
InitClose == CloseStart /\ EngineIdle /\ NoTasks
SpecClose == InitClose /\ [][NextClose]_vars

\* the backend answers every request and the event loop runs every setImmediate
\* callback and every timer; nothing obliges the application to send or to close
SpecCloseFair ==
    /\ InitClose
    /\ [][NextClose]_vars
    /\ WF_vars(CloseProgress)

\* the two contexts of SpecClose, with the application also reading the prompts and
\* summaries of a context and of its ancestors
NextLookups ==
    \/ NextClose
    \/ \E n \in HNodes : \E add_tag \in BOOLEAN : GetMsgContext(n, add_tag)
InitLookups == CloseStart /\ EngineIdle /\ NoTasks
SpecLookups == InitLookups /\ [][NextLookups]_vars


\* ------------------------------------------------------ properties of Context
Frames == UNION {{chains[c][i] : i \in 1..Len(chains[c])} : c \in DOMAIN chains}
Items == UNION {{f.items[j] : j \in 1..Len(f.items)} : f \in Frames}
ToolNames == {"f", "g"}
IsDuplicateNotice(content) == \E n \in ToolNames : content = DuplicateNotice([name |-> n])
Unsettled == {id \in DOMAIN execs : ~ execs[id].completed}

\* C1: in a tool round, a call is answered with the duplicate notice exactly when a call
\* with the same function name and the same raw argument string is marked active at that
\* moment; such a call never reaches the tool handler (no execution exists for its id,
\* and no call is handed to the handler twice), and two calls that share the name but
\* differ in the argument string are never taken for duplicates of each other.
C1_DuplicateNotPassedToHandler ==
    /\ \A it \in Items :
          /\ it.dup <=> it.wasActive
          /\ it.dup => /\ it.res = DuplicateNotice(it.call)
                       /\ it.call.id \notin DOMAIN execs
    /\ \A id \in DOMAIN execs : execs[id].ninv = 1
    /\ \A i \in 1..Len(msgs) :
          (msgs[i].role = "tool" /\ IsDuplicateNotice(msgs[i].content))
              => msgs[i].tcid \notin DOMAIN execs

\* a round holds a duplicate of a call that is being executed: the duplicate has its
\* notice and no execution, the original is with the handler
C1_Witness ==
    \E it \in Items : \E a \in Unsettled :
        /\ it.dup /\ it.wasActive
        /\ it.call.id # a
        /\ execs[a].call.name = it.call.name
        /\ execs[a].call.args = it.call.args
        /\ it.call.id \notin DOMAIN execs

\* C2: a tool execution resolves exactly once; when its timer fired first it resolved
\* with the timed-out notice and a handler result or error that arrives afterwards
\* changes nothing (the handler itself was left running); when the handler settled first
\* the timer is cleared and never acts; the response fed to the conversation is the
\* resolved value; and no resolved execution holds an active marker, so an identical
\* later call is executed rather than reported as a duplicate.
C2_TimeoutResolvesOnce ==
    /\ \A id \in DOMAIN execs :
          LET e == execs[id] IN
          /\ e.resolved = (IF e.completed THEN 1 ELSE 0)
          /\ e.timer = "fired" => e.completed /\ e.result = TimeoutNotice(e.call)
          /\ (e.completed /\ e.timer # "fired")
                => /\ e.timer = "cleared"
                   /\ e.h = "settled"
                   /\ e.result \in {HandlerResult(e.call), ErrorNotice(e.call)}
          /\ ~ e.completed => e.timer = "armed" /\ e.h = "running"
          /\ e.completed
                => \A k \in DOMAIN active_tool_calls : active_tool_calls[k].call_id # id
          /\ \A i \in 1..Len(msgs) :
                (msgs[i].role = "tool" /\ msgs[i].tcid = id)
                    => e.completed /\ msgs[i].content = e.result
    /\ \A it \in Items :
          (it.call.id \in DOMAIN execs /\ execs[it.call.id].completed /\ it.res # "")
              => it.res = execs[it.call.id].result

\* a call timed out, its handler settled afterwards, the timed-out notice is in the
\* buffer, and a later call with the same name and arguments has been executed
C2_Witness ==
    \E a, b \in DOMAIN execs :
        /\ a < b
        /\ execs[a].timer = "fired" /\ execs[a].h = "settled"
        /\ execs[a].call.name = execs[b].call.name
        /\ execs[a].call.args = execs[b].call.args
        /\ \E i \in 1..Len(msgs) :
              /\ msgs[i].role = "tool" /\ msgs[i].tcid = a
              /\ msgs[i].content = TimeoutNotice(execs[a].call)

\* C3: every tool-role response in the buffer whose originating tool-call message (the
\* assistant message listing its tool_call_id) is in the buffer stands in the unbroken run
\* of responses to that message which begins immediately after it, also when later
\* messages had been appended before the response was computed, in direct rounds and in
\* deferred replay, with one or several calls per assistant message; and a step that
\* adds tool responses keeps the relative order of the messages already in the buffer.
Key(m) == <<m.role, m.msgid, m.tcid>>
Originating(ms, id) ==
    {a \in 1..Len(ms) : \E j \in 1..Len(ms[a].calls) : ms[a].calls[j].id = id}
CallIds(m) == {m.calls[j].id : j \in 1..Len(m.calls)}
PositionedAfterOriginating(ms) ==
    \A r \in 1..Len(ms) :
        ms[r].role = "tool" =>
            \A a \in Originating(ms, ms[r].tcid) :
                /\ a < r
                /\ \A k \in (a + 1)..r : ms[k].role = "tool" /\ ms[k].tcid \in CallIds(ms[a])
\* the step makes a tool response (a summarization that puts back a response it held
\* makes none)
AddsToolResponse ==
    \E r \in 1..Len(msgs') :
        /\ msgs'[r].role = "tool"
        /\ msgs'[r].msgid >= nextMsg
OrderKept ==
    \A i, j \in 1..Len(msgs) :
        i < j => \E x, y \in 1..Len(msgs') :
                    /\ x < y
                    /\ Key(msgs'[x]) = Key(msgs[i])
                    /\ Key(msgs'[y]) = Key(msgs[j])
Unanswered ==
    \E a \in 1..Len(msgs) : \E id \in CallIds(msgs[a]) :
        /\ \A r \in 1..Len(msgs) : ~ (msgs[r].role = "tool" /\ msgs[r].tcid = id)
        /\ \A d \in 1..Len(deferred_tool_calls) : deferred_tool_calls[d].call.id # id
QueuedMarker(content) ==
    /\ waitingQueue' = Append(waitingQueue,
                              [role |-> "user", content |-> content, sid |-> nSent'])
    /\ msgs' = msgs
    /\ nRequests' = nRequests
    /\ outcome'[nSent'] = "queued"
    /\ chains' = chains
\* C4 without its two exceptions: every sendMessage call with a non-tool role made while
\* a tool call is unanswered and has no backlog entry is put in the waiting queue and
\* resolves with the queued marker.
C4_AnyCallQueued ==
    [][\A content \in {"", "m"} : \A high \in BOOLEAN :
          (SendMessage(content, high) /\ Unanswered) => QueuedMarker(content)
      ]_vars

\* C4: a sendMessage call with non-empty content and a non-tool role, made while some
\* tool call in the buffer has neither a response nor a backlog entry, and not diverted
\* to the sequential queue (sequential mode with a message in flight), appends the
\* message to the end of the waiting queue, leaves the buffer untouched, makes no
\* request and resolves at once with the queued marker; no tool-role message is ever in
\* the waiting queue, and a send that found a call pending and went on is a tool-role
\* continuation.
C4_QueuedWhilePending ==
    /\ [][\A content \in {"m"} : \A high \in BOOLEAN :
            (/\ SendMessage(content, high)
             /\ ~ (sequential_mode /\ processing_sequential)
             /\ Unanswered) => QueuedMarker(content)
        ]_vars
    /\ [](\A q \in 1..Len(waitingQueue) : waitingQueue[q].role # "tool")
    /\ [](\A f \in Frames : (f.kind = "send" /\ f.pend) => f.rec)

\* a call has resolved with the queued marker: its message is in the waiting queue and
\* not in the buffer, while a tool call is unanswered
C4_Witness ==
    \E k \in 1..MaxSeqSends :
        /\ outcome[k] = "queued"
        /\ \E q \in 1..Len(waitingQueue) : waitingQueue[q].sid = k
        /\ \A i \in 1..Len(msgs) : msgs[i].sid # k
        /\ Unanswered

\* C5: in sequential mode no later sendMessage call is processed (appended to the
\* buffer, sent, or answered) while an earlier call is still in the sequential queue.
C5_SubmissionOrder ==
    sequential_mode =>
        \A i, j \in 1..MaxSeqSends :
            (i < j /\ outcome[i] = "seqqueued")
                => outcome[j] \in {"none", "rejected", "seqqueued"}

\* the calls a step's reply carries (the backend numbers them from nextCall)
NewCalls ==
    UNION {{msgs'[i].calls[j] : j \in {x \in 1..Len(msgs'[i].calls) :
                                          msgs'[i].calls[x].id >= nextCall}} :
             i \in 1..Len(msgs')}
NewNames == {c.name : c \in NewCalls}
\* the calls a round or the backlog holds for execution
HeldCalls(ch, dtc) ==
    LET fs == UNION {{ch[c][i] : i \in 1..Len(ch[c])} : c \in DOMAIN ch} IN
    UNION {{f.items[j].call.id : j \in 1..Len(f.items)} : f \in fs}
    \cup {dtc[d].call.id : d \in 1..Len(dtc)}
    \cup UNION {UNION {{f.groups[g][x].call.id : x \in 1..Len(f.groups[g])} :
                         g \in 1..Len(f.groups)} : f \in fs}
\* the number of times toolName stands at the end of the tracker
Trailing(seq, toolName) ==
    Len(seq) - (IF \A i \in 1..Len(seq) : seq[i] = toolName THEN 0
                ELSE SeqMax({i \in 1..Len(seq) : seq[i] # toolName}))
Kept(c) == c.id \in HeldCalls(chains', deferred_tool_calls') \cup DOMAIN execs'
NotReset ==
    tool_call_sequence # <<>> /\ tool_call_sequence[Len(tool_call_sequence)] \in NewNames

\* C11: when a reply arrives while the tracker ends with max_tool_repetition or more
\* consecutive entries of tool T, every call to T in that reply is removed by the
\* filter (it enters no round and no backlog, and its handler is not invoked, then or
\* later: only calls a round or the backlog holds are ever handed to a handler), while
\* the calls to other tools in that reply are kept; and when the last tracked tool is
\* not among the tools of the reply the tracker is reset: no call of the reply is
\* removed, and a round that is executed directly leaves exactly its own tool names in
\* the tracker.
C11_RepetitionFilter ==
    /\ [][\A c \in NewCalls :
            /\ Trailing(tool_call_sequence, c.name) >= max_tool_repetition
                  => ~ Kept(c)
            /\ (\E T \in ToolNames \ {c.name} :
                    Trailing(tool_call_sequence, T) >= max_tool_repetition)
                  => Kept(c)
            /\ ~ NotReset
                  => /\ Kept(c)
                     /\ \A f \in UNION {{chains'[x][i] : i \in 1..Len(chains'[x])} :
                                            x \in DOMAIN chains'} :
                           (f.kind = "send" /\ f.items # <<>>
                            /\ f.items[1].call.id >= nextCall)
                              => tool_call_sequence'
                                    = [j \in 1..Len(f.items) |-> f.items[j].call.name]
        ]_vars
    /\ [][(DOMAIN execs') \ (DOMAIN execs)
             \subseteq HeldCalls(chains, deferred_tool_calls)
                       \cup HeldCalls(chains', deferred_tool_calls')]_vars
    /\ [][HeldCalls(chains', deferred_tool_calls')
             \subseteq HeldCalls(chains, deferred_tool_calls)
                       \cup {c.id : c \in NewCalls}]_vars

\* a reply called the tool that had been run max_tool_repetition times in a row and
\* another tool: the round holds and executes only the call to the other tool
C11_Witness ==
    \E f \in Frames : \E i \in 1..Len(msgs) :
        /\ f.kind = "send" /\ f.pc = "exec"
        /\ msgs[i].role = "assistant" /\ msgs[i].msgid = f.o
        /\ Len(msgs[i].calls) = 2 /\ Len(f.items) = 1
        /\ msgs[i].calls[1].name # f.items[1].call.name
        /\ msgs[i].calls[1].id \notin DOMAIN execs
        /\ f.items[1].call.id \in DOMAIN execs
        /\ Len(tool_call_sequence) > max_tool_repetition

\* the frames that await the reply to message o
AwaitingReply(o) == {f \in Frames : f.kind = "send" /\ f.pc = "backend" /\ f.o = o}
ReplyTo(c) ==
    {msgs'[i].msgid : i \in {x \in 1..Len(msgs') : c.id \in CallIds(msgs'[x])}}
FramesAfter == UNION {{chains'[x][i] : i \in 1..Len(chains'[x])} : x \in DOMAIN chains'}
InBacklog(c, o, depth) ==
    \/ \E d \in 1..Len(deferred_tool_calls') :
          deferred_tool_calls'[d] = [call |-> c, orig |-> o, depth |-> depth]
    \/ \E f \in FramesAfter :
          /\ f.kind = "deferred"
          /\ \/ \E g \in 1..Len(f.groups) : \E x \in 1..Len(f.groups[g]) :
                    f.groups[g][x] = [call |-> c, orig |-> o, depth |-> depth]
             \/ \E j \in 1..Len(f.items) : f.items[j].call = c

HandlerFailed(ex, id) ==
    /\ id \in DOMAIN ex
    /\ ex[id].completed
    /\ \/ ex[id].timer = "fired"
       \/ ex[id].h = "settled" /\ ex[id].result # HandlerResult(ex[id].call)
FailureNotices(call) == {ErrorNotice(call), TimeoutNotice(call)}
Answered(id, content) ==
    \E r \in 1..Len(msgs) :
        msgs[r].role = "tool" /\ msgs[r].tcid = id /\ msgs[r].content = content
Rejections == {Rejected(e) : e \in BackendErrors}

CallOf(c) ==
    LET own == {i \in 1..Len(chains[c]) : chains[c][i].kind = "send" /\ ~ chains[c][i].rec}
    IN chains[c][SeqMax(own)].sid

\* C14: when a request of a cycle is rejected with an error, the sendMessage call the
\* cycle belongs to (made directly or taken from the sequential queue) is rejected with
\* that same error, no other call is rejected, and every message that was in the buffer
\* is still there, in the same order and unchanged: the outgoing message, the earlier
\* replies and the tool responses.
C14_FailureRejectsAndKeepsBuffer ==
    [][\A c \in 0..MaxSeqSends : \A err \in BackendErrors :
          BackendFail(c, err, FALSE) =>
             /\ outcome[CallOf(c)] = "inflight"
             /\ outcome'[CallOf(c)] = Rejected(err)
             /\ \A k \in (1..MaxSeqSends) \ {CallOf(c)} :
                   outcome'[k] \in Rejections => outcome'[k] = outcome[k]
             /\ Len(msgs') >= Len(msgs)
             /\ SubSeq(msgs', 1, Len(msgs)) = msgs
             /\ \E i \in 1..Len(msgs') : msgs'[i].sid = CallOf(c)
      ]_vars

\* a call was rejected after a tool round: its message, the reply that called the tool
\* and the tool response whose submission failed are in the buffer
C14_Witness ==
    \E k \in 1..MaxSeqSends : \E err \in BackendErrors : \E i, j, l \in 1..Len(msgs) :
        /\ outcome[k] = Rejected(err)
        /\ i < j /\ j < l
        /\ msgs[i].sid = k /\ msgs[i].replied = 1
        /\ msgs[j].role = "assistant" /\ msgs[j].msgid = msgs[i].msgid
        /\ msgs[l].role = "tool" /\ msgs[l].tcid \in CallIds(msgs[j])
        /\ msgs[l].replied = 0
        /\ \A x \in 1..Len(msgs) : msgs[x].role = "assistant" => msgs[x].msgid # msgs[l].msgid

\* no sendMessage call is under way and none waits for its turn
NoCycleInFlight ==
    /\ \A c \in DOMAIN chains : chains[c] = <<>>
    /\ immediates = 0
    /\ sequential_queue = <<>>

\* C20: whenever no request cycle of the context is in flight, every tool call listed on
\* a buffered assistant message has a tool response or a backlog entry, the calls the
\* repetition filter removed included; so a user message sent then is not queued
C20_NoPendingCallWhenIdle ==
    /\ [](NoCycleInFlight => ~ HasPendingToolCalls(msgs, deferred_tool_calls))
    /\ [][\A content \in {"m"} : \A high \in BOOLEAN :
            (NoCycleInFlight /\ SendMessage(content, high))
                => outcome'[nSent'] # "queued"
        ]_vars

\* the message m stands in the list l (one message object has one key)
In(m, l) == \E i \in 1..Len(l) : Key(l[i]) = Key(m)

\* C21: when a summarization pass completes, every message that was appended to the
\* buffer while the summary request was in flight is still in the buffer, and every
\* message that was in the buffer when the pass began is still there or is one of those
\* the summary was made of, the summary being now in the buffer
C21_SummarizationLosesNothing ==
    [][\A c \in DOMAIN chains :
          SummarizeFinish(c) =>
             LET f == Top(Pack(c, FALSE)) IN
             /\ \A i \in 1..Len(msgs) :
                   (~ In(msgs[i], f.summarize) /\ ~ In(msgs[i], f.not_replied))
                      => In(msgs[i], msgs')
             /\ \A i \in 1..Len(f.not_replied) : In(f.not_replied[i], msgs')
             /\ f.summarize # <<>> => msgs'[1].content = SummaryText
    ]_vars

\* the handler invocations made so far
RECURSIVE Invocations(_)
Invocations(ids) ==
    IF ids = {} THEN 0
    ELSE LET id == CHOOSE x \in ids : TRUE IN execs[id].ninv + Invocations(ids \ {id})

\* C22: when every request to the backend and every handler call returns, every
\* top-level sendMessage returns (with a reply or the queued marker), however often the
\* backend answers with tool calls, and the requests answered with tool calls and the
\* handler invocations stay within a bound fixed by max_depth and the number of calls;
\* a round of a request cycle executes calls only at a depth below max_depth
C22_EveryCallTerminates ==
    /\ [](\A c \in DOMAIN chains : \A i \in 1..Len(chains[c]) :
            (chains[c][i].kind = "send" /\ chains[c][i].pc = "exec")
               => chains[c][i].depth < max_depth)
    /\ [](nToolReplies <= MaxRequests)
    /\ [](Invocations(DOMAIN execs) <= Len(MixedToolCalls) * MaxRequests)
    /\ \A k \in 1..MaxSeqSends :
          (outcome[k] \in {"inflight", "seqqueued"}) ~> (outcome[k] \in {"replied", "queued"})

\* a call has returned after its replay pass, every reply having asked for tools: the
\* calls deferred during the replay are left in the backlog
C22_Witness ==
    /\ outcome[1] = "replied"
    /\ \A c \in DOMAIN chains : chains[c] = <<>>
    /\ nToolReplies >= 2 * max_depth
    /\ nRequests = nToolReplies
    /\ deferred_tool_calls # <<>>

\* the activations of _sendMessageInternal for top-level calls that have not returned
TopLevelInFlight ==
    {<<c, i>> \in (DOMAIN chains) \X (1..MaxSeqSends + 2 * max_depth + 2) :
        /\ i <= Len(chains[c])
        /\ chains[c][i].kind = "send"
        /\ ~ chains[c][i].rec}

\* C23: the depth counter equals the number of top-level calls in flight (each call
\* counted once from its entry to its exit, whether it replies, returns the queued marker
\* or throws, and tool-round continuations not counted); it is never negative and is 0
\* when no top-level call is in flight
C23_DepthCountsTopLevelCalls ==
    /\ current_depth = Cardinality(TopLevelInFlight)
    /\ current_depth >= 0
    /\ \A c \in DOMAIN chains : Len(chains[c]) <= MaxSeqSends + 2 * max_depth + 2

\* one call was rejected and another is in flight with a tool-round continuation
\* awaiting the backend
C23_Witness ==
    /\ current_depth = 1
    /\ \E k \in 1..MaxSeqSends : outcome[k] \in Rejections
    /\ \E f \in Frames : f.rec /\ f.pc = "backend"

\* the activations of _processSequentialQueue that are in their loop
Draining == {c \in DOMAIN chains : \E i \in 1..Len(chains[c]) : chains[c][i].kind = "drain"}

\* C24: in sequential mode at most one top-level request cycle is in flight and at most
\* one drain loop runs, the processing flag is set while a cycle is in flight or the
\* drain loop runs, a top-level call made while the flag is set is put in the sequential
\* queue and starts no cycle, and messages leave that queue from its head only (the
\* drain loop takes the next one when the one before has returned)
C24_OneCycleAtATime ==
    /\ [](sequential_mode =>
            /\ Cardinality(TopLevelInFlight) <= 1
            /\ Cardinality(Draining) <= 1
            /\ (TopLevelInFlight # {} \/ Draining # {}) => processing_sequential)
    /\ [][(sequential_mode /\ processing_sequential /\ nSent' = nSent + 1)
             => /\ outcome'[nSent + 1] \in {"seqqueued", "rejected"}
                /\ chains' = chains
                /\ processing_sequential']_vars
    /\ [][sequential_mode =>
             \E k \in 0..Len(sequential_queue) :
                /\ Len(sequential_queue') >= Len(sequential_queue) - k
                /\ SubSeq(sequential_queue', 1, Len(sequential_queue) - k)
                      = SubSeq(sequential_queue, k + 1, Len(sequential_queue))
                /\ k > 0 => Draining # {} \/ immediates > 0]_vars

\* the drain loop has a queued call in flight while another call waits in the queue
C24_Witness ==
    /\ sequential_mode
    /\ Draining # {}
    /\ TopLevelInFlight # {}
    /\ sequential_queue # <<>>
    /\ \E k \in 1..MaxSeqSends : outcome[k] = "replied"

\* the calls of the rounds under execution that have not settled yet
Executing ==
    UNION {{f.items[j].call : j \in {x \in 1..Len(f.items) : x >= f.idx /\ ~ f.items[x].dup}} :
              f \in {g \in Frames : g.pc = "exec"}}

IsToolResponse(m) == m.role = "tool" /\ m.tool_call_id # 0
BearsToolCalls(m) == m.role = "assistant" /\ m.tool_calls # <<>>
Plain(m) == ~ IsToolResponse(m) /\ ~ BearsToolCalls(m)
EmptyAssistant(m) == m.role = "assistant" /\ m.tool_calls = <<>> /\ m.content = ""
RECURSIVE IsSubseq(_, _)
IsSubseq(u, v) ==
    IF u = <<>> THEN TRUE
    ELSE IF v = <<>> THEN FALSE
    ELSE IF Head(u) = Head(v) THEN IsSubseq(Tail(u), Tail(v)) ELSE IsSubseq(u, Tail(v))
WithoutCalls(q) == [i \in 1..Len(q) |-> [q[i] EXCEPT !.tool_calls = <<>>]]

\* the response-integrity condition on a queue
Integrity(q) ==
    /\ \A i \in 1..Len(q) :
          IsToolResponse(q[i]) =>
             \E j \in 1..Len(q) : \E x \in 1..Len(q[j].tool_calls) :
                q[j].tool_calls[x] = q[i].tool_call_id
    /\ \A j \in 1..Len(q) : \A x \in 1..Len(q[j].tool_calls) :
          q[j].role = "assistant" =>
             \E i \in 1..Len(q) : IsToolResponse(q[i]) /\ q[i].tool_call_id = q[j].tool_calls[x]

\* C26: the queue a context sends to the backend satisfies the response-integrity
\* condition (every tool response answers a call listed in the queue, every call listed
\* on an assistant message has a response in the queue); it holds the messages of the
\* assembled queue that are neither tool responses nor call-bearing assistant messages,
\* unchanged and in order; apart from tool calls taken off, it holds nothing that was not
\* assembled; and no assistant message whose calls were all taken off is left without
\* text
C26_ResponseIntegrity ==
    [][\A n \in DOMAIN contexts :
          contexts'[n].outbound # contexts[n].outbound =>
             LET q0 == fullQueue(hparent', contexts', n)
                 q == contexts'[n].outbound
             IN /\ Integrity(q)
                /\ IsSubseq(SelectSeq(q0, Plain), q)
                /\ IsSubseq(WithoutCalls(q), WithoutCalls(q0))
                /\ Len(SelectSeq(q, EmptyAssistant)) = Len(SelectSeq(q0, EmptyAssistant))
    ]_vars

\* a queue is with the backend from which an orphaned tool response and an unanswered
\* call were taken, and which keeps an answered call with its response
C26_Witness ==
    \E n \in DOMAIN contexts :
       LET q0 == fullQueue(hparent, contexts, n)
           q == contexts[n].outbound
       IN /\ q # <<>>
          /\ contexts[n].inflight # {}
          /\ \E i \in 1..Len(q0) : IsToolResponse(q0[i]) /\ q0[i].tool_call_id = 3
          /\ \E i \in 1..Len(q0) : q0[i].tool_calls = <<1, 2>>
          /\ \E i \in 1..Len(q) : q[i].tool_calls = <<1>> /\ q[i].content = ""
          /\ \E i \in 1..Len(q) : IsToolResponse(q[i]) /\ q[i].tool_call_id = 1
          /\ Len(q) < Len(q0)

\* a message pushSummary put in the buffer (opts.summary)
SummaryFlagged(m) == m.role = "user" /\ m.msgid = 0 /\ m.content = SummaryText

\* C27: a non-closing summarization pass sends no summary-flagged message for
\* summarization and keeps those the buffer held, puts one new summary message in the
\* place of the replied messages, and reattaches the messages not yet replied,
\* unchanged, after it
C27_SummarizationPartition ==
    [][\A c \in DOMAIN chains :
          SummarizeFinish(c) =>
             LET f == Top(Pack(c, FALSE))
                 flagged == SelectSeq(f.summarize \o f.not_replied, SummaryFlagged)
             IN /\ \A i \in 1..Len(f.summarize) : ~ SummaryFlagged(f.summarize[i])
                /\ Len(SelectSeq(msgs', SummaryFlagged)) = Len(flagged) + 1
                /\ SelectSeq(msgs', LAMBDA m : ~ SummaryFlagged(m)) = f.not_replied
    ]_vars

\* the replay takes the backlog in this step
BacklogTaken ==
    /\ deferred_tool_calls # <<>>
    /\ \A i \in 1..Len(deferred_tool_calls) : \A j \in 1..Len(deferred_tool_calls') :
          deferred_tool_calls'[j] # deferred_tool_calls[i]
\* the calls of the backlog that come from the message o, in order
GroupCalls(o) ==
    LET g == SelectSeq(deferred_tool_calls, LAMBDA d : d.orig = o)
    IN [i \in 1..Len(g) |-> g[i].call]

\* C28: when the replay of the backlog begins, the buffer gets, for every group of calls
\* with one originating message, a synthetic assistant message that bears the calls of
\* the group; and a replay that is over within the same turn (none of its calls is
\* awaited) leaves no call of the backlog it took without a tool response in the buffer
C28_BacklogReplayed ==
    [][BacklogTaken =>
          \A i \in 1..Len(deferred_tool_calls) :
             /\ \E x \in 1..Len(msgs') :
                   /\ msgs'[x].role = "assistant"
                   /\ msgs'[x].content = DeferredStandIn
                   /\ msgs'[x].calls = GroupCalls(deferred_tool_calls[i].orig)
             /\ (\A g \in FramesAfter : g.kind # "deferred") =>
                   \E x \in 1..Len(msgs') :
                      /\ msgs'[x].role = "tool"
                      /\ msgs'[x].tcid = deferred_tool_calls[i].call.id
      ]_vars

\* C29: in a round and in the replay of a group alike, of two calls of the list with
\* the same name and the same argument string the later one is not handed to the
\* handler when the earlier one was (it is answered with the duplicate notice)
C29_ReplayLikeDirectRound ==
    \A f \in Frames : \A i, j \in 1..Len(f.items) :
        (/\ i < j
         /\ GetToolCallKey(f.items[i].call) = GetToolCallKey(f.items[j].call)
         /\ ~ f.items[i].dup
         /\ f.items[i].call.id \in DOMAIN execs)
            => f.items[j].call.id \notin DOMAIN execs

ToolMessages(ms) == Len(SelectSeq(ms, LAMBDA m : m.role = "tool"))
\* the text of the reply to the message o, as the buffer holds it
ReplyContent(ms, o) ==
    LET x == CHOOSE i \in 1..Len(ms) : ms[i].role = "assistant" /\ ms[i].msgid = o
    IN ms[x].content
HasReply(ms, o) == \E i \in 1..Len(ms) : ms[i].role = "assistant" /\ ms[i].msgid = o
\* the round of frame i of chain c hands its results over in this step
ResultsFed(c, i) ==
    /\ i <= Len(chains[c]) /\ i <= Len(chains'[c])
    /\ chains[c][i].kind = "send" /\ chains[c][i].pc # "cont"
    /\ chains'[c][i].kind = "send" /\ chains'[c][i].pc = "cont"
\* the continuation of the round of frame i of chain c returns in this step
ContinuationReturned(c, i) ==
    /\ i < Len(chains[c]) /\ Len(chains'[c]) <= i
    /\ chains[c][i].kind = "send" /\ chains[c][i].pc = "cont"
    /\ chains[c][i + 1].kind = "send"
    /\ HasReply(msgs', chains[c][i + 1].o)

\* C30: a round that hands over the results of its n calls (executed or answered as
\* duplicates) adds n tool messages to the buffer and makes one request, the
\* continuation, which submits the last result at depth + 1; the other n - 1 results are
\* in the buffer as replied; and when the continuation returns, the round's reply has
\* its own text, followed by a newline and the continuation's text if that is not empty
C30_RoundFeedsResults ==
    [][\A c \in DOMAIN chains : \A i \in 1..(2 * max_depth + 3) :
          /\ ResultsFed(c, i) =>
                LET g == chains'[c][i]
                    n == Len(g.items)
                IN /\ n >= 1
                   /\ ToolMessages(msgs') = ToolMessages(msgs) + n
                   /\ nRequests' = nRequests + 1
                   /\ Len(chains'[c]) = i + 1
                   /\ LET k == chains'[c][i + 1] IN
                      /\ k.rec /\ k.pc = "backend" /\ k.depth = g.depth + 1
                      /\ \E x \in 1..Len(msgs') :
                            /\ msgs'[x].msgid = k.o
                            /\ msgs'[x].role = "tool"
                            /\ msgs'[x].tcid = g.items[n].call.id
                            /\ msgs'[x].content = g.items[n].res
                            /\ msgs'[x].replied = 0
                   /\ \A j \in 1..(n - 1) : \E x \in 1..Len(msgs') :
                         /\ msgs'[x].role = "tool"
                         /\ msgs'[x].tcid = g.items[j].call.id
                         /\ msgs'[x].content = g.items[j].res
                         /\ msgs'[x].replied = 1
          /\ ContinuationReturned(c, i) =>
                LET own == ReplyContent(msgs, chains[c][i].o)
                    content2 == ReplyContent(msgs', chains[c][i + 1].o)
                IN ReplyContent(msgs', chains[c][i].o)
                      = IF content2 = "" THEN own ELSE own \o "\n" \o content2
      ]_vars

\* a call has returned whose reply had text and two calls, one answered as a duplicate,
\* and whose continuation had text; another round's reply had no text of its own
C30_Witness ==
    /\ outcome[1] = "replied"
    /\ \E x \in 1..Len(msgs) :
          /\ msgs[x].role = "assistant" /\ Len(msgs[x].calls) = 2
          /\ msgs[x].content = "reply\nreply"
          /\ \E y \in 1..Len(msgs) :
                /\ msgs[y].role = "tool" /\ msgs[y].tcid = msgs[x].calls[1].id
                /\ msgs[y].replied = 1
          /\ \E y \in 1..Len(msgs) :
                /\ msgs[y].role = "tool" /\ msgs[y].tcid = msgs[x].calls[2].id
                /\ IsDuplicateNotice(msgs[y].content)
    /\ \E x \in 1..Len(msgs) :
          /\ msgs[x].role = "assistant" /\ msgs[x].calls # <<>>
          /\ msgs[x].content = "\nreply"

\* ------------------------------------------------------- properties of Itask
VisitsOf(k, idx) == {v \in 1..Len(k.visits) : k.visits[v].idx = idx}

\* C6: a task that was cancelled while it had a cancel-step it had not visited has,
\* when it is completed, executed that cancel-step exactly once (and never more than
\* once before), and when the cancel-step is the last step it executed and has
\* returned, the error is cleared.
C6_CancelStepRunsOnce ==
    \A t \in TaskIds :
        LET k == tasks[t]
            n == Len(k.visits)
        IN k.cancel_step_due =>
              /\ Cardinality(VisitsOf(k, k.cancel_state_idx)) <= 1
              /\ k.completed => Cardinality(VisitsOf(k, k.cancel_state_idx)) = 1
              /\ (n > 0 /\ k.visits[n].idx = k.cancel_state_idx /\ k.visits[n].out = "returned")
                    => k.error = Undefined

\* C7: when a step has failed and a catch-step exists at a later index, the step
\* executed next is the nearest such catch-step and it receives the error; when that
\* catch-step has returned, the step after it receives the catch-step's value, and if
\* none follows the error is undefined and retval is that value; a step that adds a
\* failure to one task leaves the tasks with the same parent as they were.
RoutedToCatch(k) ==
    \A v \in 1..Len(k.visits) :
        LET x == k.visits[v]
            h == next_error_handler(k.states, x.idx)
        IN (x.out = "failed" /\ h # -1) =>
              /\ v < Len(k.visits)
              /\ k.visits[v + 1].idx = h
              /\ k.visits[v + 1].arg = x.val
              /\ k.visits[v + 1].out = "returned" =>
                    IF v + 1 < Len(k.visits)
                    THEN k.visits[v + 2].arg = k.visits[v + 1].val
                    ELSE k.error = Undefined /\ k.retval = k.visits[v + 1].val
Failures(k) == {v \in 1..Len(k.visits) : k.visits[v].out = "failed"}
SiblingsKept ==
    \A t, u \in TaskIds :
        (/\ t # u
         /\ tasks[t].created /\ tasks[u].created
         /\ tasks[t].parent # 0 /\ tasks[t].parent = tasks[u].parent
         /\ Cardinality(Failures(tasks'[t])) > Cardinality(Failures(tasks[t])))
            => tasks'[u] = tasks[u]
C7_FailureGoesToNearestCatch ==
    /\ [](\A t \in TaskIds : RoutedToCatch(tasks[t]))
    /\ [][nCancels' = nCancels => SiblingsKept]_vars

\* C8: _ecancel on a task reaches every uncompleted descendant (each is marked
\* cancelled and has no wait() left pending), and a cancelled task without cancel- or
\* catch-steps that has completed has the cancellation error.
RECURSIVE Descendants(_, _)
Descendants(t, depth) ==
    IF depth = 0 THEN {t}
    ELSE {t} \cup UNION {Descendants(c, depth - 1) : c \in tasks[t].child}
NoCancelOrCatch(k) == \A i \in 1..Len(k.states) : ~ k.states[i].cancel /\ ~ k.states[i].catch
C8_CancelReachesDescendants ==
    /\ [][\A t \in TaskIds :
            (nCancels' # nCancels /\ tasks[t].created /\ ~ tasks[t].completed
             /\ ~ tasks[t].cancelled /\ tasks'[t].cancelled)
                => \A d \in Descendants(t, MaxTasks) :
                      tasks'[d].cancelled /\ ~ tasks'[d].continue_reject
       ]_vars
    /\ [](\A t \in TaskIds :
            (tasks[t].cancelled /\ tasks[t].completed /\ NoCancelOrCatch(tasks[t]))
                => tasks[t].error = CancelledError)

\* _ecancel reached the running task t while the promise of its current step was pending:
\* the step was called before the cancellation, so not with the cancellation error
CancelledInFlight(t) ==
    LET k == tasks[t] IN
    /\ k.running /\ k.cancelled /\ ~ k.completed
    /\ k.pc = "await_promise"
    /\ k.visits[Len(k.visits)].arg # CancelledError

\* C19: a running task without cancel-step and catch-step that is cancelled while the
\* promise of its current step is pending ends with the cancellation error, whether the
\* promise resolves or rejects, and calls no further ordinary step
C19_CancelSurvivesInFlightStep ==
    [][\A t \in TaskIds : \A ok \in BOOLEAN :
          (CancelledInFlight(t) /\ NoCancelOrCatch(tasks[t]) /\ PromiseSettles(t, ok))
             => /\ tasks'[t].error = CancelledError
                /\ tasks'[t].completed \/ tasks'[t].pc = "children"
                /\ \A v \in (Len(tasks[t].visits) + 1)..Len(tasks'[t].visits) :
                      tasks[t].states[tasks'[t].visits[v].idx + 1].aux
    ]_vars

\* the smallest index after i whose step is no catch, finally or cancel step, or the
\* length of the list
NextOrdinary(states, i) ==
    LET later == {j \in (i + 1)..(Len(states) - 1) : ~ states[j + 1].aux}
    IN IF later = {} THEN Len(states) ELSE SeqMin(later)
Ordinary(k) == {i \in 0..(Len(k.states) - 1) :
                    ~ (k.states[i + 1].catch \/ k.states[i + 1].finally
                       \/ k.states[i + 1].cancel)}

\* C15: for every state list and every index i of an ordinary step, _next_non_aux(i) is
\* the smallest index after i whose step is not catch, finally or cancel, or the length
\* of the list when there is none; and in a run without cancellation, a task whose
\* ordinary step i ended without error goes on at exactly that index: the next step it
\* calls is that one, or, when that is the end of the list, its finally step, or none.
C15_AdvanceSkipsAuxiliary ==
    \A t \in TaskIds :
        LET k == tasks[t]
            n == Len(k.visits)
            finallyIdx == FindIndex(k.states, LAMBDA st : st.finally)
        IN /\ \A i \in Ordinary(k) : next_non_aux(k.states, i) = NextOrdinary(k.states, i)
           /\ nCancels = 0 =>
                \A v \in 1..n :
                    LET i == k.visits[v].idx
                        j == NextOrdinary(k.states, i)
                    IN (i \in Ordinary(k) /\ k.visits[v].out = "returned") =>
                          /\ v < n => k.visits[v + 1].idx
                                         = (IF j < Len(k.states) THEN j ELSE finallyIdx)
                          /\ v = n => j = Len(k.states) /\ finallyIdx = -1
                                       /\ k.cur_state = j

\* a task went from an ordinary step over an auxiliary step to the next ordinary step
C15_Witness ==
    \E t \in TaskIds : \E v \in 1..(Len(tasks[t].visits) - 1) :
        LET k == tasks[t] IN
        /\ nCancels = 0
        /\ k.visits[v].idx \in Ordinary(k)
        /\ k.visits[v].out = "returned"
        /\ k.visits[v + 1].idx \in Ordinary(k)
        /\ k.visits[v + 1].idx > k.visits[v].idx + 1

\* C16: a task that has finished its steps and waits for its children is eventually
\* completed, also when a child never settles (nothing obliges a child's promise to
\* settle or its wait() to be continued): the child-completion timeout ends the wait,
\* completes the task, and leaves its error and its retval as they were.
C16_ParentCompletesDespiteChild ==
    /\ \A t \in TaskIds : (tasks[t].pc = "children") ~> tasks[t].completed
    /\ [][\A t \in TaskIds :
            ChildrenTimeout(t) =>
               /\ tasks'[t].completed
               /\ tasks'[t].error = tasks[t].error
               /\ tasks'[t].retval = tasks[t].retval
        ]_vars

\* a task is completed without error although a child of it is not, and nothing was
\* cancelled: its wait for the children timed out
C16_Witness ==
    \E t, c \in TaskIds :
        /\ nCancels = 0
        /\ tasks[c].created /\ tasks[c].parent = t /\ ~ tasks[c].completed
        /\ tasks[c].pc \in {"await_wait", "await_promise"}
        /\ tasks[t].completed /\ tasks[t].error = Undefined
        /\ tasks[t].retval # Undefined

\* the callback a got (error, retval): a then() promise is rejected with the error if
\* there is one and otherwise resolved with retval
Got(a, error, retval) ==
    IF a.kind = "then"
    THEN IF error # Undefined THEN a.how = "rejected" /\ a.err = error
         ELSE a.how = "resolved" /\ a.res = retval
    ELSE a.how = "called" /\ a.err = error /\ a.res = retval

Completes(t) == ~ tasks[t].completed /\ tasks'[t].completed

\* C17: a then() promise or finally() callback attached to a task before it completes is
\* settled exactly once, at completion, with the task's (error, retval): rejected with
\* the error if one is set, else resolved with retval; one attached after completion
\* fires at once with the same (error, retval) as those got at completion
C17_AwaitersSettledWithOutcome ==
    /\ [](\A t \in TaskIds : \A i \in 1..Len(tasks[t].cbs) :
            LET k == tasks[t]
                a == k.cbs[i]
            IN /\ a.fired = IF k.completed THEN 1 ELSE 0
               /\ k.completed => Got(a, k.final[1], k.final[2]))
    /\ [][\A t \in TaskIds :
            Completes(t) => tasks'[t].final = <<tasks'[t].error, tasks'[t].retval>>
        ]_vars

\* the future of wait() on task t is pending: the step that called it is the last called
WaitPending(t) ==
    /\ tasks[t].continue_reject
    /\ tasks[t].pc \in {"await_wait", "finally_wait"}

\* how that future has settled after the step
WaitOutcome(t) == tasks'[t].visits[Len(tasks[t].visits)]

\* C18: a pending wait() future of a task is resolved with v by continue(v), rejected with
\* the cancellation error by cancel() and settled by throw(err); return(v) completes the
\* task at once with retval v and throw(err) with error err
C18_ManualSuspension ==
    [][\A t \in TaskIds :
          /\ WaitPending(t) /\ Continue(t) =>
                WaitOutcome(t).out = "returned" /\ WaitOutcome(t).val = ContinueValue
          /\ WaitPending(t) /\ CancelTask(t) =>
                WaitOutcome(t).out = "failed" /\ WaitOutcome(t).val = CancelledError
          /\ \A err \in ThrowArgs :
                /\ WaitPending(t) /\ ThrowTask(t, err) => WaitOutcome(t).out # "called"
                /\ ThrowTask(t, err) => tasks'[t].completed /\ tasks'[t].error = err
          /\ Return(t) => tasks'[t].completed /\ tasks'[t].retval = ReturnValue
    ]_vars

\* the state loop of task k has run and has ended: no step of it is still in flight
LoopEnded(k) ==
    LET finallyIdx == FindIndex(k.states, LAMBDA st : st.finally) IN
    /\ k.visits # <<>>
    /\ \A v \in 1..Len(k.visits) :
          k.visits[v].idx # finallyIdx => k.visits[v].out # "called"

\* the finally-step of task k, if it has one, was called
FinallyRan(k) ==
    LET finallyIdx == FindIndex(k.states, LAMBDA st : st.finally) IN
    finallyIdx # -1 => \E v \in 1..Len(k.visits) : k.visits[v].idx = finallyIdx

\* C31: a task is marked completed only after its state loop has ended, its finally-step
\* (if any) has run, and all its children have completed or the child-completion
\* timeout has elapsed, on every completion path (return(), throw() and cancel() of an
\* idle task included)
C31_CompletedAfterLoopFinallyChildren ==
    [][\A t \in TaskIds :
          Completes(t) =>
             /\ LoopEnded(tasks'[t])
             /\ FinallyRan(tasks'[t])
             /\ \/ \A c \in tasks[t].child : tasks'[c].completed
                \/ ChildrenTimeout(t)
                \/ FinalizeTimeout(t)
    ]_vars

\* the calls of the finally-step of task k
FinallyVisits(k) ==
    {v \in 1..Len(k.visits) :
        k.visits[v].idx = FindIndex(k.states, LAMBDA st : st.finally)}

\* C32: a task with a finally-step whose state loop ends (all steps done, or break on an
\* unhandled error; here: no cancellation, no return() and no throw()) executes the
\* finally-step exactly once, after every other executed step and before it is marked
\* completed; a failure of the finally-step replaces the error, otherwise error and
\* retval stay what they were when the finally-step was called
C32_FinallyOnceAfterLoop ==
    \A t \in TaskIds :
        LET k == tasks[t]
            finallyIdx == FindIndex(k.states, LAMBDA st : st.finally)
            n == Len(k.visits)
        IN (k.created /\ finallyIdx # -1 /\ nCancels = 0) =>
              /\ Cardinality(FinallyVisits(k)) <= 1
              /\ FinallyVisits(k) \subseteq {n}
              /\ k.completed =>
                    /\ FinallyVisits(k) = {n}
                    /\ k.funcs[finallyIdx + 1].beh = "throw" =>
                          k.error = Thrown(finallyIdx)
                    /\ k.funcs[finallyIdx + 1].beh = "value" =>
                          k.visits[n].arg = (IF k.error # Undefined THEN k.error
                                             ELSE k.retval)

\* the errors a task can hold: the cancellation error, what a step threw or its promise
\* was rejected with, and the error of throw()
TaskErrors ==
    {CancelledError} \cup {AsError(err) : err \in ThrowArgs}
        \cup UNION {{Thrown(i), Rejection(i)} : i \in 0..3}

\* C33: an auxiliary step is entered only through explicit routing, for any step list,
\* lists whose first step is auxiliary included: a catch-step is called only with an
\* outstanding error of the task, a cancel-step only after a cancellation, and the
\* finally-step only in the pass after the loop, as the last step called
C33_AuxiliaryOnlyByRouting ==
    \A t \in TaskIds : \A v \in 1..Len(tasks[t].visits) :
        LET k == tasks[t]
            st == k.states[k.visits[v].idx + 1]
        IN /\ st.catch => k.visits[v].arg \in TaskErrors
           /\ st.cancel => nCancels > 0
           /\ st.finally => v = Len(k.visits)

\* the task was completed by return() or throw(): _complete_internal handed out their
\* argument
Forced(k) ==
    /\ k.final # <<>>
    /\ k.final[2] = ReturnValue \/ k.final[1] \in {AsError(err) : err \in ThrowArgs}

\* C34: when a step of the loop has failed (it threw, or the value it awaited was
\* rejected) and no catch-step exists at a later index, no further step of the loop is
\* called, and the task, unless its finally-step fails too, completes with that failure
\* as its error and every then() promise on it is rejected with it; this holds for every
\* kind of failing step, a catch-step or cancel-step that throws included. Checked
\* without cancellation.
C34_UnhandledFailureRejects ==
    \A t \in TaskIds : \A v \in 1..Len(tasks[t].visits) :
        LET k == tasks[t]
            x == k.visits[v]
            finallyIdx == FindIndex(k.states, LAMBDA st : st.finally)
        IN (/\ nCancels = 0
            /\ x.idx # finallyIdx
            /\ x.out = "failed"
            /\ next_error_handler(k.states, x.idx) = -1) =>
               /\ \A w \in (v + 1)..Len(k.visits) : k.visits[w].idx = finallyIdx
               /\ (/\ k.completed
                   /\ \A w \in (v + 1)..Len(k.visits) : k.visits[w].out # "failed"
                   /\ finallyIdx # -1 => k.funcs[finallyIdx + 1].beh # "throw") =>
                      /\ k.error = x.val
                      /\ \A i \in 1..Len(k.cbs) :
                            k.cbs[i].kind = "then" =>
                               k.cbs[i].how = "rejected" /\ k.cbs[i].err = x.val

\* C35: once a task is completed, its error, its retval and its completed flag never
\* change, whatever is called on it or on other tasks later and whatever step of it
\* settles later, and no completion callback attached to it is invoked again
C35_CompletedIsFrozen ==
    [][\A t \in TaskIds :
          tasks[t].completed =>
             /\ tasks'[t].completed
             /\ tasks'[t].error = tasks[t].error
             /\ tasks'[t].retval = tasks[t].retval
             /\ \A i \in 1..Len(tasks[t].cbs) : tasks'[t].cbs[i] = tasks[t].cbs[i]
    ]_vars

\* ------------------------------------------- properties of queues and close()
\* call k sits in the sequential queue of some context
SeqQueued(k) ==
    \E n \in HNodes : \E i \in 1..Len(contexts[n].sequential_queue) :
        contexts[n].sequential_queue[i] = k

\* call k has left the sequential queues and no request for it is in flight: it was
\* processed and its promise is settled
SeqDone(k) ==
    /\ ~ SeqQueued(k)
    /\ \A n \in HNodes : k \notin contexts[n].inflight

\* C36: in sequential mode, every sendMessage call that was put in the sequential queue
\* is eventually processed and its promise settled, under every interleaving, also when
\* close() is called on the context while calls are queued and they are moved to the
\* parent context
C36_QueuedCallsSettle ==
    \A k \in 1..MaxQueueSends : SeqQueued(k) ~> SeqDone(k)

\* u is a prefix of v
IsPrefix(u, v) == Len(u) <= Len(v) /\ SubSeq(v, 1, Len(u)) = u

\* the buffer ms ends with the messages of the queue q, in order, as pending messages
EndsWithPending(ms, q) ==
    /\ Len(ms) >= Len(q)
    /\ \A i \in 1..Len(q) :
          LET m == ms[Len(ms) - Len(q) + i]
          IN m.msgid = q[i] /\ m.role = "user" /\ m.replied = 0

\* the messages of the buffer ms that came out of a waiting queue: pending user messages
\* for which no request was made
Admitted(c) ==
    {i \in 1..Len(c.msgs) : /\ c.msgs[i].role = "user" /\ c.msgs[i].replied = 0
                            /\ c.msgs[i].msgid > 0
                            /\ c.msgs[i].msgid \notin c.inflight}

\* C38: the messages of a waiting queue are conserved: a step leaves the queue of a
\* context as it is, or adds messages at its end, or empties it; it is emptied only by
\* an admission, made at a point of a cycle of that context where no tool call is
\* pending, which puts all its messages in order at the end of the context's buffer as
\* pending messages, each once, or by close(), which puts them in order at the end of
\* the parent context's waiting queue; and a cycle of the context never passes such a
\* point with a message left in the queue
C38_WaitingQueueConserved ==
    [][\A n \in HNodes :
          LET c == contexts[n]
              d == contexts'[n]
              parentCtx == getParentContext(hparent, contexts, n)
              admission == /\ d.inflight # c.inflight
                           /\ ~ PendingInBuffer(d.msgs)
                           /\ EndsWithPending(d.msgs, c.waitingQueue)
                           /\ Cardinality(Admitted(d))
                                 = Cardinality(Admitted(c)) + Len(c.waitingQueue)
                           /\ \A m \in HNodes \ {n} :
                                 contexts'[m].waitingQueue = contexts[m].waitingQueue
              move == /\ closes'[n].phase # closes[n].phase \/ closes'[n].calls # closes[n].calls
                      /\ parentCtx # 0
                      /\ contexts'[parentCtx].waitingQueue
                            = contexts[parentCtx].waitingQueue \o c.waitingQueue
                      /\ d.msgs = c.msgs
          IN /\ \/ IsPrefix(c.waitingQueue, d.waitingQueue)
                \/ d.waitingQueue = <<>> /\ (admission \/ move)
             /\ d.inflight # c.inflight =>
                   d.waitingQueue = <<>> \/ PendingInBuffer(d.msgs)
    ]_vars

\* a message that was sent on the child context, waited there and was moved to the
\* parent context by close() has been admitted to the buffer of the parent context,
\* which never held a history and was never closed
C38_Witness ==
    /\ closes[1].calls = 0 /\ closes[2].calls = 1
    /\ \A i \in 1..Len(contexts[1].msgs) : contexts[1].msgs[i].msgid # -1
    /\ Admitted(contexts[1]) # {}
    /\ contexts[1].waitingQueue = <<>>

\* ------------------------------------------ properties of tags and of ancestors
\* the requests context n hands to the backend in this step
NewRequests(n) == contexts'[n].inflight \ contexts[n].inflight
\* the message that request k of context n sends
Sent(c, k) ==
    CHOOSE m \in {c.msgs[i] : i \in 1..Len(c.msgs)} :
        m.msgid = k /\ m.role \in {"user", "tool"}
\* the tag of the top-level message whose cycle request k belongs to: a tool result
\* belongs to the cycle of the message whose reply asked for the call
CycleTag(c, k) ==
    LET o == Sent(c, k)
    IN IF o.role = "user" THEN o.tag
       ELSE LET asking == CHOOSE m \in {c.msgs[i] : i \in 1..Len(c.msgs)} :
                              \E j \in 1..Len(m.tool_calls) :
                                  m.tool_calls[j] = o.tool_call_id
            IN asking.tag
\* the stored messages of context n and of its ancestors
Stock(hp, cx, n) ==
    UNION {{cx[a].msgs[i] : i \in 1..Len(cx[a].msgs)} :
              a \in {n} \cup {b \in HNodes : \E i \in 1..Len(ContextAncestors(hp, cx, n)) :
                                                ContextAncestors(hp, cx, n)[i] = b}}
\* stored message m belongs to the sub-conversation tagged t: it is tagged t, or it is
\* the result of a tool call that a message tagged t asked for
TaggedFor(m, t, stock) ==
    \/ m.tag = t
    \/ /\ m.role = "tool"
       /\ \E a \in stock : a.tag = t /\ \E j \in 1..Len(a.tool_calls) :
                                            a.tool_calls[j] = m.tool_call_id
\* entry e of a queue is a system-role message, or a stored message that is
\* summary-flagged or belongs to the sub-conversation tagged t
AllowedFor(e, t, stock) ==
    \/ e.role = "system"
    \/ \E m \in stock : /\ m.content = e.content /\ m.role = e.role
                         /\ (m.summary \/ TaggedFor(m, t, stock))

\* C37: every request of the cycle of a top-level message tagged t, the requests that
\* carry its tool results included, holds only system-role messages, summary-flagged
\* messages and messages of the sub-conversation tagged t, never a working message of
\* another sub-conversation
C37_TaggedCycleSeesOnlyItsTag ==
    [][\A n \in HNodes : \A k \in NewRequests(n) :
          LET t == CycleTag(contexts'[n], k)
          IN t # NoTag =>
                \A i \in 1..Len(contexts'[n].outbound) :
                    AllowedFor(contexts'[n].outbound[i], t,
                               Stock(hparent', contexts', n))]_vars
\* the same for the request that carries the top-level message itself
C37_FirstRequestSeesOnlyItsTag ==
    [][\A n \in HNodes : \A k \in NewRequests(n) :
          LET t == CycleTag(contexts'[n], k)
          IN (t # NoTag /\ Sent(contexts'[n], k).role = "user") =>
                \A i \in 1..Len(contexts'[n].outbound) :
                    AllowedFor(contexts'[n].outbound[i], t,
                               Stock(hparent', contexts', n))]_vars

\* what an ancestor context may contribute: its summary-flagged and system-role messages
SummariesOf(c) ==
    PlainMsgs([c EXCEPT !.msgs = SelectSeq(@, LAMBDA m : m.summary \/ m.role = "system")])
RECURSIVE PromptsAndSummaries(_, _)
PromptsAndSummaries(cx, ancestors) ==
    IF ancestors = <<>> THEN <<>>
    ELSE LET ctx == cx[Head(ancestors)]
         IN (IF ctx.prompt # "" THEN <<SystemPrompt(ctx)>> ELSE <<>>)
               \o SummariesOf(ctx) \o PromptsAndSummaries(cx, Tail(ancestors))
\* the own part of the queue of context n under tag_filter
OwnPart(c, tag_filter) ==
    (IF c.prompt # "" THEN <<SystemPrompt(c)>> ELSE <<>>)
       \o (IF tag_filter = NoTag THEN PlainMsgs(c) ELSE FilteredMsgs(c, tag_filter))

\* C40: the queue of every request is, root first, the system prompt and the
\* summary-flagged and system-role messages of each ancestor context, then the prompt
\* and the messages of the context itself, with a tag filter and without one
C40_AncestorsGiveOnlySummaries ==
    [][\A n \in HNodes : \A k \in NewRequests(n) :
          contexts'[n].outbound
             = validateToolResponses(
                  PromptsAndSummaries(contexts', ContextAncestors(hparent', contexts', n))
                     \o OwnPart(contexts'[n], Sent(contexts'[n], k).tag))]_vars
\* the same for a context whose ancestors hold nothing but summaries
C40_QueueOverSummaryAncestors ==
    [][\A n \in HNodes : \A k \in NewRequests(n) :
          (\A a \in HNodes : a # n => \A i \in 1..Len(contexts'[a].msgs) :
                                          contexts'[a].msgs[i].summary)
          => contexts'[n].outbound
                = validateToolResponses(
                     PromptsAndSummaries(contexts',
                                         ContextAncestors(hparent', contexts', n))
                        \o OwnPart(contexts'[n], Sent(contexts'[n], k).tag))]_vars

\* an operation of context n takes a step
OperationOn(n) ==
    \/ LoadHistory(n, OpenCallHistory)
    \/ QueueSend(n)
    \/ \E k \in 1..MaxQueueSends : HierReply(n, k)
    \/ HierImmediate(n)
    \/ Close(n) \/ CloseWake(n)
    \/ \E how \in {"summary", "empty", "rejected"} : CloseFinish(n, how)
    \/ \E add_tag \in BOOLEAN : GetMsgContext(n, add_tag)
\* context a gains one summary message and nothing else of it changes
GainsSummary(a) ==
    \E m \in {contexts'[a].msgs[i] : i \in 1..Len(contexts'[a].msgs)} :
        /\ m.summary
        /\ contexts'[a] = [contexts[a] EXCEPT !.msgs = Append(@, m)]

\* C39: a step of an operation of context n leaves every other context as it was, but
\* for close() of n, which adds one summary message to the parent context
C39_OnlySummaryCrossesContexts ==
    [][\A n \in HNodes : OperationOn(n) =>
          \A a \in HNodes \ {n} :
              \/ contexts'[a] = contexts[a]
              \/ closes[n].phase = "summarizing" /\ closes[n].target = a
                    /\ GainsSummary(a)]_vars
\* the same for sends, replies and lookups without add_tag, and for close() of a
\* context with no queued call
C39_PlainLookupsReadOnly ==
    [][\A n \in HNodes :
          (/\ OperationOn(n)
           /\ ~ GetMsgContext(n, TRUE)
           /\ contexts[n].waitingQueue = <<>> /\ contexts[n].sequential_queue = <<>>)
          => \A a \in HNodes \ {n} :
                \/ contexts'[a] = contexts[a]
                \/ closes[n].phase = "summarizing" /\ closes[n].target = a
                      /\ GainsSummary(a)]_vars

\* ----------------------------------------------- properties of the hierarchy
SummaryCount(c) == Cardinality({i \in 1..Len(c.msgs) : c.msgs[i].summary})
Body(m) == [msgid |-> m.msgid, role |-> m.role, content |-> m.content]
Bodies(ms) == [i \in 1..Len(ms) |-> Body(ms[i])]
RECURSIVE Depth(_, _)
Depth(hp, t) == IF hp[t] = 0 THEN 0 ELSE 1 + Depth(hp, hp[t])
RECURSIVE Above(_, _)
Above(hp, t) == IF hp[t] = 0 THEN {} ELSE {hp[t]} \cup Above(hp, hp[t])
\* the context that is to receive the summary of a close() of context n
NearestOfParent(hp, cx, n) ==
    LET owners == {a \in Above(hp, n) : cx[a].exists}
    IN IF owners = {} THEN n
       ELSE CHOOSE a \in owners : \A b \in owners : Depth(hp, b) <= Depth(hp, a)
Partitions(n) == closes[n].phase # "summarizing" /\ closes'[n].phase = "summarizing"
Finishes(n) == closes[n].phase = "summarizing" /\ closes'[n].phase = "none"
ReturnsEarly(n) == closes[n].phase # "summarizing" /\ closes'[n].calls > 0
                   /\ closes'[n].phase = "none"
                   /\ (closes[n].phase = "waiting" \/ closes'[n].calls > closes[n].calls)
TargetOf(n) == IF closes[n].target = 0 THEN n ELSE closes[n].target

\* C9: a close() pass of a context adds at most one summary message, and only to the
\* nearest context of the parent task as it was when the pass partitioned the buffer
\* (the closing context itself if there is none); the messages that had no reply at
\* that moment are in the buffer of the closing context when the pass ends, with
\* their ids, roles and contents, in the same relative order.
C9_CloseKeepsNotReplied ==
    [][\A n \in HNodes :
          /\ Partitions(n) =>
                /\ TargetOf(n)' = NearestOfParent(hparent, contexts, n)
                /\ closes'[n].not_replied
                      = SelectSeq(contexts[n].msgs, LAMBDA m : m.replied = 0)
                /\ contexts'[n].msgs = contexts[n].msgs
          /\ ReturnsEarly(n) =>
                /\ contexts'[n].msgs = contexts[n].msgs
                /\ \A c \in HNodes : SummaryCount(contexts'[c]) = SummaryCount(contexts[c])
          /\ Finishes(n) =>
                /\ \A c \in HNodes :
                      /\ SummaryCount(contexts'[c]) <= SummaryCount(contexts[c]) + 1
                      /\ SummaryCount(contexts'[c]) > SummaryCount(contexts[c])
                            => c = TargetOf(n)
                /\ LET kept == {Body(closes[n].not_replied[i]) :
                                   i \in 1..Len(closes[n].not_replied)}
                   IN Bodies(SelectSeq(contexts'[n].msgs, LAMBDA m : Body(m) \in kept))
                         = Bodies(closes[n].not_replied)
          /\ (\E c \in HNodes : SummaryCount(contexts'[c]) > SummaryCount(contexts[c]))
                => \E m \in HNodes : Finishes(m)
      ]_vars

\* a close() has bubbled its summary to another context and has kept a message that
\* had no reply in the closing context
C9_Witness ==
    \E n \in HNodes :
        /\ closes[n].calls = 1 /\ closes[n].phase = "none"
        /\ \E i \in 1..Len(contexts[n].msgs) : contexts[n].msgs[i].replied = 0
        /\ SummaryCount(contexts[n]) = 0
        /\ \E t \in HNodes \ {n} : SummaryCount(contexts[t]) = 1

SystemPrompts(q) ==
    LET sys == SelectSeq(q, LAMBDA m : m.role = "system")
    IN [i \in 1..Len(sys) |-> sys[i].content]
\* the tasks from the root down to t
RootToLeaf(hp, t) ==
    [i \in 1..(Depth(hp, t) + 1) |->
        CHOOSE a \in Above(hp, t) \cup {t} : Depth(hp, a) = i - 1]
ExpectedPrompts(hp, cx, t) ==
    LET owners == SelectSeq(RootToLeaf(hp, t), LAMBDA a : cx[a].exists /\ cx[a].prompt # "")
    IN [i \in 1..Len(owners) |-> cx[owners[i]].prompt]

\* C10: getAncestorContexts of a task returns exactly the contexts on the path from
\* the root to the task, root first, and the system prompts of the queue assembled
\* for a context are the prompts of its ancestor contexts from the root down followed
\* by its own prompt, for every hierarchy; the queue handed to the backend is that queue.
C10_RootToLeafOrder ==
    /\ [](\A t \in HNodes : hparent[t] # -1 =>
            LET s == getAncestorContexts(hparent, contexts, t)
            IN /\ {s[i] : i \in 1..Len(s)}
                     = {a \in Above(hparent, t) \cup {t} : contexts[a].exists}
               /\ \A i, j \in 1..Len(s) :
                     i < j => Depth(hparent, s[i]) < Depth(hparent, s[j])
               /\ contexts[t].exists =>
                     SystemPrompts(createMsgQ(hparent, contexts, t))
                        = ExpectedPrompts(hparent, contexts, t))
    /\ [][\A n \in HNodes :
            contexts'[n].outbound # contexts[n].outbound
               => SystemPrompts(contexts'[n].outbound)
                     = ExpectedPrompts(hparent, contexts, n)]_vars

\* a context three levels deep, under a task created after it, has sent a message with
\* the three prompts
C10_Witness ==
    \E n \in HNodes :
        /\ hparent[n] > n
        /\ hparent[hparent[n]] > 0
        /\ hparent[hparent[hparent[n]]] = 0
        /\ Len(SystemPrompts(contexts[n].outbound)) = 3
        /\ SystemPrompts(createMsgQ(hparent, contexts, n))
              = <<TaskPrompt(hparent[hparent[n]]), TaskPrompt(hparent[n]), TaskPrompt(n)>>

====
